---- MODULE Spec2Model ----
(***************************************************************************)
(* State-machine model of the referral bot (src/bot): the sqlite store of  *)
(* database.py, the per-user FSM session, and the aiogram handlers of      *)
(* handlers.py.  A handler is a coroutine: the router picks it when the    *)
(* update arrives, it reads its User object once, and then runs await by   *)
(* await.  `tasks` holds the handlers in flight, each with the store calls *)
(* and sends it has still to make; the arrival, every such await, and the  *)
(* session changes a handler makes when it runs on from a store call are   *)
(* steps of their own, and the steps of different handlers interleave.     *)
(* The answer of bot.get_chat_member depends on nothing the bot stores, so *)
(* it is drawn when the handler starts and the lookup, which writes        *)
(* nothing, is no step of its own: the handlers that run during the lookup *)
(* run between the store calls around it.  `journal` sums what the steps   *)
(* applied to the store, `last` is the handler run that returned most      *)
(* recently (or the step just made).  `lock` is Database._lock with the    *)
(* place of every handler in Database._locked_connection.                  *)
(***************************************************************************)
EXTENDS Integers, Sequences, FiniteSets, TLC

VARIABLES users, withdrawals, session, tgname, clock, ticks, notices, last,
          tasks, journal, lock

vars == <<users, withdrawals, session, tgname, clock, ticks, notices, last,
          tasks, journal, lock>>

\* the handlers in flight, their journal and the store lock
inflight == <<tasks, journal, lock>>

----------------------------------------------------------------------------
(* Bounds of the model *)

\* number of times the wall clock is moved forward
MaxTicks == 2
\* number of rows the withdrawals table may hold
MaxWithdrawals == 2
\* number of moderator resolutions one withdrawal row may receive
MaxResolutions == 2
\* how far below zero a balance is followed
MaxDebt == 3
\* number of handlers that may be in flight at once
MaxTasks == 2
\* number of updates that arrive while other handlers are in flight
MaxRuns == 2
\* number of store calls that fail
MaxFaults == 1

(* Program constants: Settings defaults, never overridden by load_settings *)
min_withdrawal == 15
start_bonus == 3
referral_bonus == 3
daily_bonus_amount == 1
\* datetime.timedelta(hours=24), in seconds
DaySeconds == 86400
HourSeconds == 3600
MinuteSeconds == 60

\* the Telegram accounts that send events (the deep links of StartArgs name
\* them); UnknownIds have no row and send nothing
Ids == {1, 2}
UnknownIds == {3}
\* Settings.admin_ids
admin_ids == {1}

\* SQL NULL / Python None for an integer column
NULL == -1
\* Python None for the username column (Telegram user without a username)
NoName == "None"
\* SQL NULL for the last_daily_bonus TEXT column
NoStamp == <<>>

Names == {NoName, "ann"}

----------------------------------------------------------------------------
(* Text inputs: a message text or a command argument is a sequence of      *)
(* characters.  A character outside ASCII is written by its code point:    *)
(* "U+0663" is ARABIC-INDIC DIGIT THREE, "U+FF11" FULLWIDTH DIGIT ONE and   *)
(* "U+00B2" SUPERSCRIPT TWO.                                               *)

\* the characters str.isdigit() accepts: the decimal digits of every script
\* and the digit-like characters such as superscripts
Digits ==
    {"0", "1", "2", "3", "4", "5", "6", "7", "8", "9",
     "U+0663", "U+FF11", "U+00B2"}

\* the characters int() reads as decimal digits (Unicode category Nd)
Decimals == Digits \ {"U+00B2"}

\* str.isspace() characters, stripped by int()
Whitespace == {" "}

DigitVal(c) ==
    CASE c = "0" -> 0 [] c = "1" -> 1 [] c = "2" -> 2 [] c = "3" -> 3
      [] c = "4" -> 4 [] c = "5" -> 5 [] c = "6" -> 6 [] c = "7" -> 7
      [] c = "8" -> 8 [] c = "9" -> 9
      [] c = "U+0663" -> 3 [] c = "U+FF11" -> 1

\* str.isdigit(): non-empty and every character a digit
isdigit(s) == Len(s) > 0 /\ \A i \in 1..Len(s) : s[i] \in Digits

\* the value of a run of decimal digits with its underscores skipped
RECURSIVE DecimalValue(_)
DecimalValue(s) ==
    IF Len(s) = 0 THEN 0
    ELSE IF s[Len(s)] = "_" THEN DecimalValue(SubSeq(s, 1, Len(s) - 1))
    ELSE 10 * DecimalValue(SubSeq(s, 1, Len(s) - 1)) + DigitVal(s[Len(s)])

\* str.strip(): the text without its leading and trailing whitespace
RECURSIVE strip(_)
strip(s) ==
    IF Len(s) = 0 THEN s
    ELSE IF s[1] \in Whitespace THEN strip(Tail(s))
    ELSE IF s[Len(s)] \in Whitespace THEN strip(SubSeq(s, 1, Len(s) - 1))
    ELSE s

\* str.lower() on the letters the texts below use; "U+041E" is the
\* Cyrillic capital O and "U+043E" the small one
lower(s) ==
    [i \in DOMAIN s |->
        CASE s[i] = "C" -> "c" [] s[i] = "A" -> "a" [] s[i] = "N" -> "n"
          [] s[i] = "E" -> "e" [] s[i] = "L" -> "l"
          [] s[i] = "U+041E" -> "U+043E"
          [] OTHER -> s[i]]

\* the words that cancel a dialogue: "/cancel" and the Cyrillic "otmena"
CancelWords ==
    {<<"/", "c", "a", "n", "c", "e", "l">>,
     <<"U+043E", "U+0442", "U+043C", "U+0435", "U+043D", "U+0430">>}

\* text.strip().lower() in {"/cancel", "otmena"}
IsCancel(text) == lower(strip(text)) \in CancelWords

\* the digit part of an int() literal: decimal digits, single underscores
\* between them
IsDigitPart(s) ==
    /\ Len(s) > 0
    /\ s[1] \in Decimals /\ s[Len(s)] \in Decimals
    /\ \A i \in 1..Len(s) : s[i] \in Decimals \cup {"_"}
    /\ \A i \in 1..(Len(s) - 1) : ~(s[i] = "_" /\ s[i + 1] = "_")

\* int(text): [ok, value]; ValueError for anything but an optionally signed
\* digit part with whitespace around it
ParseInt(s) ==
    LET body == strip(s)
    IN IF IsDigitPart(body) THEN [ok |-> TRUE, value |-> DecimalValue(body)]
       ELSE IF Len(body) > 1 /\ body[1] = "-" /\ IsDigitPart(Tail(body))
       THEN [ok |-> TRUE, value |-> 0 - DecimalValue(Tail(body))]
       ELSE IF Len(body) > 1 /\ body[1] = "+" /\ IsDigitPart(Tail(body))
       THEN [ok |-> TRUE, value |-> DecimalValue(Tail(body))]
       ELSE [ok |-> FALSE, value |-> 0]

\* args.startswith("ref")
startswith_ref(s) == Len(s) >= 3 /\ SubSeq(s, 1, 3) = <<"r", "e", "f">>

\* the id a deep-link parameter names, or NULL
DeepLink(args) ==
    IF startswith_ref(args) /\ isdigit(SubSeq(args, 4, Len(args)))
       /\ ParseInt(SubSeq(args, 4, Len(args))).ok
    THEN ParseInt(SubSeq(args, 4, Len(args))).value
    ELSE NULL

\* the parse without the `referred_by == telegram_id` test
ParseReferral_keeps_self(args, telegram_id) ==
    IF startswith_ref(args) /\ isdigit(SubSeq(args, 4, Len(args)))
    THEN LET parsed == ParseInt(SubSeq(args, 4, Len(args)))
         IN [raised |-> ~parsed.ok,
             referred_by |-> IF parsed.ok THEN parsed.value ELSE NULL]
    ELSE [raised |-> FALSE, referred_by |-> NULL]

\* cmd_start's parse of the deep-link parameter: the referrer id or NULL;
\* raised when int() refuses text that str.isdigit() accepted (ValueError)
ParseReferral(args, telegram_id) ==
    IF startswith_ref(args) /\ isdigit(SubSeq(args, 4, Len(args)))
    THEN LET parsed == ParseInt(SubSeq(args, 4, Len(args)))
         IN [raised |-> ~parsed.ok,
             referred_by |-> IF ~parsed.ok \/ parsed.value = telegram_id
                             THEN NULL ELSE parsed.value]
    ELSE [raised |-> FALSE, referred_by |-> NULL]

----------------------------------------------------------------------------
(* Time stamps: datetime.isoformat() / datetime.fromisoformat()            *)

\* now.isoformat(): the date part and the time-of-day part
isoformat(t) == <<t \div DaySeconds, t % DaySeconds>>
fromisoformat(s) == s[1] * DaySeconds + s[2]

----------------------------------------------------------------------------
(* database.py: the users table is a function from the ids that have a row *)
(* to the row; the withdrawals table is the sequence of its rows, the      *)
(* AUTOINCREMENT id being the position.                                    *)

\* Python truthiness of an Optional[int]
Truthy(x) == x # NULL /\ x # 0

HasUser(U, telegram_id) == telegram_id \in DOMAIN U

get_user(U, telegram_id) == U[telegram_id]

NewRow(initial_balance, referred_by, username) ==
    [balance |-> initial_balance,
     referred_by |-> referred_by,
     is_subscribed |-> FALSE,
     reward_claimed |-> FALSE,
     last_daily_bonus |-> NoStamp,
     username |-> username,
     is_banned |-> FALSE,
     start_bonus_claimed |-> (initial_balance > 0)]

\* INSERT OR REPLACE: a second insert writes a fresh row over the first
create_user_replaces(U, telegram_id, initial_balance, referred_by, username) ==
    [i \in DOMAIN U \cup {telegram_id} |->
        IF i = telegram_id
        THEN NewRow(initial_balance, referred_by, username)
        ELSE U[i]]

\* INSERT OR IGNORE
create_user(U, telegram_id, initial_balance, referred_by, username) ==
    IF HasUser(U, telegram_id) THEN U
    ELSE [i \in DOMAIN U \cup {telegram_id} |->
            IF i = telegram_id
            THEN NewRow(initial_balance, referred_by, username)
            ELSE U[i]]

\* UPDATE ... WHERE telegram_id = ? AND referred_by IS NULL
\* assign_referrer without `AND referred_by IS NULL`
assign_referrer_overwrites(U, telegram_id, referred_by) ==
    IF HasUser(U, telegram_id)
    THEN [U EXCEPT ![telegram_id].referred_by = referred_by]
    ELSE U

assign_referrer(U, telegram_id, referred_by) ==
    IF HasUser(U, telegram_id) /\ U[telegram_id].referred_by = NULL
    THEN [U EXCEPT ![telegram_id].referred_by = referred_by]
    ELSE U

update_username(U, telegram_id, username) ==
    IF HasUser(U, telegram_id)
    THEN [U EXCEPT ![telegram_id].username = username]
    ELSE U

update_balance(U, telegram_id, delta) ==
    IF HasUser(U, telegram_id)
    THEN [U EXCEPT ![telegram_id].balance = @ + delta]
    ELSE U

set_subscription(U, telegram_id, subscribed) ==
    IF HasUser(U, telegram_id)
    THEN [U EXCEPT ![telegram_id].is_subscribed = subscribed]
    ELSE U

set_reward_claimed(U, telegram_id, claimed) ==
    IF HasUser(U, telegram_id)
    THEN [U EXCEPT ![telegram_id].reward_claimed = claimed]
    ELSE U

mark_reward_claimed(U, telegram_id) == set_reward_claimed(U, telegram_id, TRUE)

set_start_bonus_claimed(U, telegram_id, claimed) ==
    IF HasUser(U, telegram_id)
    THEN [U EXCEPT ![telegram_id].start_bonus_claimed = claimed]
    ELSE U

set_last_daily_bonus(U, telegram_id, timestamp) ==
    IF HasUser(U, telegram_id)
    THEN [U EXCEPT ![telegram_id].last_daily_bonus = timestamp]
    ELSE U

set_ban_status(U, telegram_id, banned) ==
    IF HasUser(U, telegram_id)
    THEN [U EXCEPT ![telegram_id].is_banned = banned]
    ELSE U

\* created_at is CURRENT_TIMESTAMP, the time of the insert in seconds
add_withdrawal(W, telegram_id, amount, now) ==
    Append(W, [telegram_id |-> telegram_id, amount |-> amount,
               status |-> "pending", created_at |-> now])

HasWithdrawal(W, request_id) == request_id \in 1..Len(W)

get_withdrawal(W, request_id) == W[request_id]

set_withdrawal_status(W, request_id, status) ==
    IF HasWithdrawal(W, request_id)
    THEN [W EXCEPT ![request_id].status = status]
    ELSE W

\* list_withdrawals(status): ORDER BY created_at DESC.  The order of rows
\* inserted in the same second is left to sqlite: `ties` is "rowid" for
\* the order of insertion and "reverse" for the opposite
RECURSIVE Ordered(_, _, _)
Ordered(W, rows, ties) ==
    IF rows = {} THEN <<>>
    ELSE LET Before(r, q) ==
                 \/ W[r].created_at > W[q].created_at
                 \/ /\ W[r].created_at = W[q].created_at
                    /\ IF ties = "rowid" THEN r < q ELSE r > q
             first == CHOOSE r \in rows :
                          \A q \in rows \ {r} : Before(r, q)
         IN <<first>> \o Ordered(W, rows \ {first}, ties)

list_withdrawals(W, status, ties) ==
    Ordered(W, {r \in 1..Len(W) : W[r].status = status}, ties)

\* list_referrals: the rows WHERE referred_by = telegram_id
list_referrals(U, telegram_id) ==
    {i \in DOMAIN U : U[i].referred_by = telegram_id}

\* list_top_referrers: one line per referred_by that is not NULL (LIMIT 10
\* is above the number of accounts followed)
list_top_referrers(U) ==
    {U[i].referred_by : i \in {j \in DOMAIN U : U[j].referred_by # NULL}}

\* list_all_users selects eight columns and builds User(...) without
\* start_bonus_claimed, a field that has no default: the first row raises
\* TypeError, an empty table gives the empty list
list_all_users(U) ==
    IF DOMAIN U = {}
    THEN [raised |-> FALSE, ids |-> {}]
    ELSE [raised |-> TRUE, ids |-> {}]

----------------------------------------------------------------------------
(* handlers.py: the helpers the handlers share.  Every `await db.*`        *)
(* releases the event loop, so a helper is given by the store calls it     *)
(* makes, one after the other, and by the User object the handler keeps (a *)
(* copy of the row, stale after later writes).                             *)

\* outcome of one bot.send_message to another chat
Deliveries == {"ok", "bad_request", "forbidden"}

\* ChatMember.status values returned by bot.get_chat_member
ChatStatuses == {"member", "left"}

\* the User dataclass built by get_user
UserObject(U, telegram_id) ==
    [telegram_id |-> telegram_id,
     balance |-> U[telegram_id].balance,
     referred_by |-> U[telegram_id].referred_by,
     is_subscribed |-> U[telegram_id].is_subscribed,
     reward_claimed |-> U[telegram_id].reward_claimed,
     last_daily_bonus |-> U[telegram_id].last_daily_bonus,
     username |-> U[telegram_id].username,
     is_banned |-> U[telegram_id].is_banned,
     start_bonus_claimed |-> U[telegram_id].start_bonus_claimed]

\* one store call f(id, n) or f(id, s); `why` names what a balance update
\* is for and `of` the referee it is made on behalf of
StoreCall(f, id, n, s, why, of) ==
    [f |-> f, id |-> id, n |-> n, s |-> s, why |-> why, of |-> of]

\* the branch with the `if user is None` test always taken
EnsureBranch_always_creates(U, telegram_id) == "create"

\* the branch _ensure_user_record takes on the result of its get_user
EnsureBranch(U, telegram_id) ==
    IF ~HasUser(U, telegram_id) THEN "create" ELSE "found"

\* the `elif` test of _ensure_user_record, not reached on the creation path
AssignsReferrer(user, referred_by, created) ==
    /\ ~created
    /\ Truthy(referred_by)
    /\ user.referred_by = NULL
    /\ referred_by # user.telegram_id

\* the calls of _ensure_user_record after the get_user that returned `user`
EnsureCalls(user, username, referred_by, created) ==
    (IF AssignsReferrer(user, referred_by, created)
     THEN <<StoreCall("assign_referrer", user.telegram_id, referred_by,
                      NoName, "none", 0)>>
     ELSE <<>>)
    \o (IF user.username # username
        THEN <<StoreCall("update_username", user.telegram_id, 0, username,
                         "none", 0)>>
        ELSE <<>>)

\* the User object _ensure_user_record returns
EnsuredUser(user, username, referred_by, created) ==
    [user EXCEPT
        !.referred_by = IF AssignsReferrer(user, referred_by, created)
                        THEN referred_by ELSE @,
        !.username = username]

_is_channel_member(status) == status \in {"member", "administrator", "creator"}

\* the start bonus part of _activate_subscription
ActivateStartBonus(user) ==
    IF ~user.start_bonus_claimed
    THEN <<StoreCall("update_balance", user.telegram_id, start_bonus,
                     NoName, "start", 0),
           StoreCall("set_start_bonus_claimed", user.telegram_id, 1,
                     NoName, "none", 0)>>
    ELSE <<>>

\* the referral part of _activate_subscription
ActivateReferral(user) ==
    IF Truthy(user.referred_by) /\ ~user.reward_claimed
    THEN <<StoreCall("update_balance", user.referred_by, referral_bonus,
                     NoName, "referral", user.telegram_id),
           StoreCall("mark_reward_claimed", user.telegram_id, 1, NoName,
                     "none", 0)>>
    ELSE <<>>

\* suppress(TelegramBadRequest): TelegramForbiddenError leaves the handler
Escapes(delivery) == delivery = "forbidden"

\* _activate_subscription: its store calls, the User object after it (the
\* balance field is never updated), the notices it sends and whether the
\* notice to the referrer leaves the handler
_activate_subscription(user, delivery) ==
    LET referral == Truthy(user.referred_by) /\ ~user.reward_claimed
    IN [calls |-> <<StoreCall("set_subscription", user.telegram_id, 1,
                              NoName, "none", 0)>>
                  \o ActivateStartBonus(user) \o ActivateReferral(user),
        user |-> [user EXCEPT !.is_subscribed = TRUE,
                              !.start_bonus_claimed = TRUE,
                              !.reward_claimed = (@ \/ referral)],
        start_bonus_awarded |-> ~user.start_bonus_claimed,
        sent |-> IF referral THEN 1 ELSE 0,
        raised |-> referral /\ Escapes(delivery)]

\* the reversal with the referrer's balance left alone
ReverseReferral_account_only(user) ==
    IF user.reward_claimed /\ Truthy(user.referred_by)
    THEN <<StoreCall("update_balance", user.telegram_id,
                     0 - referral_bonus, NoName, "none", 0),
           StoreCall("set_reward_claimed", user.telegram_id, 0, NoName,
                     "none", 0)>>
    ELSE <<>>

\* the reversal part of _handle_unsubscription
ReverseReferral(user) ==
    IF user.reward_claimed /\ Truthy(user.referred_by)
    THEN <<StoreCall("update_balance", user.telegram_id,
                     0 - referral_bonus, NoName, "none", 0),
           StoreCall("update_balance", user.referred_by,
                     0 - referral_bonus, NoName, "reversal",
                     user.telegram_id),
           StoreCall("set_reward_claimed", user.telegram_id, 0, NoName,
                     "none", 0)>>
    ELSE <<>>

_handle_unsubscription(user, delivery, delivery2) ==
    LET reversal == user.reward_claimed /\ Truthy(user.referred_by)
    IN [calls |-> <<StoreCall("set_subscription", user.telegram_id, 0,
                              NoName, "none", 0)>>
                  \o ReverseReferral(user),
        user |-> [user EXCEPT !.is_subscribed = FALSE,
                              !.reward_claimed = (@ /\ ~reversal)],
        start_bonus_awarded |-> FALSE,
        sent |-> IF ~reversal THEN 0
                 ELSE IF Escapes(delivery) THEN 1 ELSE 2,
        raised |-> reversal /\ (Escapes(delivery) \/ Escapes(delivery2))]

\* the outcome of a verification that makes no store call
Unchanged(user, is_member) ==
    [calls |-> <<>>, user |-> user, is_member |-> is_member,
     activated |-> FALSE, start_bonus_awarded |-> FALSE, what |-> "noop",
     referral |-> FALSE, sent |-> 0, raised |-> FALSE]

\* what _verify_and_activate_subscription returns and did, r being the
\* outcome of the helper it ran
Verified(r, is_member, what) ==
    [calls |-> r.calls, user |-> r.user, is_member |-> is_member,
     activated |-> is_member,
     start_bonus_awarded |-> is_member /\ r.start_bonus_awarded,
     what |-> what, referral |-> r.sent > 0, sent |-> r.sent,
     raised |-> r.raised]

\* _verify_and_activate_subscription without the `if not user.is_subscribed`
\* test: a member is activated on every run
_verify_always_activates(user, status, delivery, delivery2) ==
    IF ~_is_channel_member(status)
    THEN IF user.is_subscribed
         THEN Verified(_handle_unsubscription(user, delivery, delivery2),
                       FALSE, "unsubscribed")
         ELSE Unchanged(user, FALSE)
    ELSE Verified(_activate_subscription(user, delivery), TRUE, "activated")

\* _verify_and_activate_subscription on the User object of the handler and
\* the answer of get_chat_member
_verify_and_activate_subscription(user, status, delivery, delivery2) ==
    IF ~_is_channel_member(status)
    THEN IF user.is_subscribed
         THEN Verified(_handle_unsubscription(user, delivery, delivery2),
                       FALSE, "unsubscribed")
         ELSE Unchanged(user, FALSE)
    ELSE IF ~user.is_subscribed
         THEN Verified(_activate_subscription(user, delivery), TRUE,
                       "activated")
         ELSE Unchanged(user, TRUE)

\* _set_ban_status without the `if user.is_banned == banned` return
_set_ban_status_always_writes(U, user_id, banned) ==
    IF ~HasUser(U, user_id)
    THEN [calls |-> <<>>, found |-> FALSE, writes |-> 0, sent |-> 0]
    ELSE [calls |-> <<StoreCall("set_ban_status", user_id,
                                IF banned THEN 1 ELSE 0, NoName, "none", 0)>>,
          found |-> TRUE, writes |-> 1, sent |-> 1]

\* _set_ban_status on the table its get_user reads: whether the id was
\* found, the store writes it makes and the notices it sends
_set_ban_status(U, user_id, banned) ==
    IF ~HasUser(U, user_id)
    THEN [calls |-> <<>>, found |-> FALSE, writes |-> 0, sent |-> 0]
    ELSE IF get_user(U, user_id).is_banned = banned
    THEN [calls |-> <<>>, found |-> TRUE, writes |-> 0, sent |-> 0]
    ELSE [calls |-> <<StoreCall("set_ban_status", user_id,
                                IF banned THEN 1 ELSE 0, NoName, "none", 0)>>,
          found |-> TRUE, writes |-> 1, sent |-> 1]

\* the resolution with the amount of a rejected request returned to its
\* account
_update_withdrawal_status_refunds(W, request_id, status, delivery) ==
    IF ~HasWithdrawal(W, request_id) THEN [calls |-> <<>>, found |-> FALSE]
    ELSE [calls |->
            <<StoreCall("set_withdrawal_status", request_id, 0, status,
                        "none", 0)>>
            \o (IF status = "rejected"
                THEN <<StoreCall("update_balance",
                                 get_withdrawal(W, request_id).telegram_id,
                                 get_withdrawal(W, request_id).amount,
                                 NoName, "refund", 0)>>
                ELSE <<>>)
            \o <<StoreCall("send_outcome", request_id,
                           IF delivery = "ok" THEN 1 ELSE 0, NoName,
                           "none", 0)>>,
          found |-> TRUE]

\* _update_withdrawal_status on the table its get_withdrawal reads: the
\* status write and the outcome message to the requesting account
_update_withdrawal_status(W, request_id, status, delivery) ==
    IF ~HasWithdrawal(W, request_id) THEN [calls |-> <<>>, found |-> FALSE]
    ELSE [calls |->
            <<StoreCall("set_withdrawal_status", request_id, 0, status,
                        "none", 0),
              StoreCall("send_outcome", request_id,
                        IF delivery = "ok" THEN 1 ELSE 0, NoName,
                        "none", 0)>>,
          found |-> TRUE]

----------------------------------------------------------------------------
(* What a handler run was given and what it answered.  `before` is every   *)
(* balance as it stood when the handler started; `prior` is the            *)
(* verification outcome of the run just before it when that run was for    *)
(* the same account, and `again` tells that the run just before it was the *)
(* same call with the same inputs.                                         *)

Balances(U) == [i \in Ids |-> IF HasUser(U, i) THEN U[i].balance ELSE 0]

\* the record of a run with nothing filled in
Blank ==
    [op |-> "none", uid |-> 0, target |-> 0, ref |-> NULL, name |-> NoName,
     member |-> FALSE, what |-> "none", referral |-> FALSE,
     start_bonus_awarded |-> FALSE, created |-> FALSE, reply |-> "none",
     amount |-> 0, now |-> 0, wait |-> <<0, 0>>, sent |-> 0, to_admins |-> 0,
     attempted |-> 0, failed |-> 0, writes |-> 0, raised |-> FALSE,
     before |-> [i \in Ids |-> 0], prior |-> "none", again |-> FALSE,
     listed |-> 0, blocked |-> 0]

\* the record of the handler in `task`, which started in the state task.pre
Call(task) ==
    [Blank EXCEPT
        !.op = task.op, !.uid = task.uid, !.target = task.target,
        !.ref = task.ref, !.name = task.name,
        !.before = Balances(task.pre.users),
        !.prior = IF task.pre.last.uid = task.uid THEN task.pre.last.what
                  ELSE "none"]

\* the verification outcome as recorded
WithVerify(task, call, v) ==
    [call EXCEPT !.member = v.is_member, !.what = v.what,
                 !.referral = v.referral,
                 !.start_bonus_awarded = v.start_bonus_awarded,
                 !.sent = v.sent,
                 !.raised = v.raised,
                 !.again = (task.pre.last.uid = call.uid
                            /\ task.pre.last.what \in {"activated",
                                                       "unsubscribed", "noop"}
                            /\ v.what # "none"
                            /\ task.pre.last.member = v.is_member)]

\* the awaits a handler has still to make and the record it ends with
Outcome(calls, done) == [queue |-> calls, done |-> done]

\* message.answer: an await that writes nothing
Answer(id) == StoreCall("answer", id, 0, NoName, "none", 0)

\* state.set_state and state.clear on the memory storage: no await inside,
\* they run when the handler runs on from the await before them
SetState(id, s) == StoreCall("state_set", id, 0, s, "none", 0)
ClearState(id) == StoreCall("state_clear", id, 0, NoName, "none", 0)

\* _verify_and_activate_subscription on the event of `task`
Verify(task, user) ==
    _verify_and_activate_subscription(user, task.status, task.plan[1],
                                      task.plan[2])

\* the gates without ensure_not_banned: a banned sender is reconciled and
\* served like any other
Gate_ban_ignored(user, v) ==
    IF v.raised THEN "raised"
    ELSE IF ~v.is_member THEN "not_member" ELSE "ok"

\* ensure_not_banned and ensure_subscription_access: "banned", "raised" (a
\* delivery error left the handler), "not_member" or "ok"
Gate(user, v) ==
    IF user.is_banned THEN "banned"
    ELSE IF v.raised THEN "raised"
    ELSE IF ~v.is_member THEN "not_member" ELSE "ok"

\* the reply of a handler that stops at the gate
GateReply(gate) ==
    IF gate = "banned" THEN "banned"
    ELSE IF gate = "not_member" THEN "subscribe_required"
    ELSE "none"

\* ensure_user's caller going through ensure_not_banned and
\* ensure_subscription_access: the store calls of the verification (none
\* for a banned sender) and the record so far
Access(task, user, call) ==
    LET Through(v, gate) ==
            [gate |-> gate,
             queue |-> IF gate = "banned" THEN <<>> ELSE v.calls,
             done |-> IF gate = "banned"
                      THEN [call EXCEPT !.reply = "banned"]
                      ELSE [WithVerify(task, call, v) EXCEPT
                               !.reply = GateReply(gate)]]
        Checked(v) == Through(v, Gate(user, v))
    IN Checked(Verify(task, user))

----------------------------------------------------------------------------
(* The handlers, from the return of _ensure_user_record on: the awaits     *)
(* each makes, in the order of the code, and the record of its outcome.    *)
(* A send that is followed by no session change adds no state and is left  *)
(* out.                                                                    *)

\* command arguments of /start: none, the ids of the accounts, an id in
\* Arabic-Indic digits (an unknown account) and a superscript, which
\* isdigit accepts and int rejects
StartArgs == {<<>>, <<"r", "e", "f", "1">>, <<"r", "e", "f", "2">>,
              <<"r", "e", "f", "U+0663">>, <<"r", "e", "f", "U+00B2">>}

cmd_start(task, user, call) ==
    LET Checked(v) ==
            Outcome(v.calls,
                    [WithVerify(task, call, v) EXCEPT
                        !.reply = IF v.raised THEN "welcome" ELSE "link"])
    IN IF user.is_banned
       THEN Outcome(<<>>, [call EXCEPT !.reply = "banned"])
       ELSE Checked(Verify(task, user))

\* the reply shows user.balance, the balance of the User object
show_balance(task, user, call) ==
    LET Reply(a) ==
            IF a.gate # "ok" THEN Outcome(a.queue, a.done)
            ELSE Outcome(a.queue, [a.done EXCEPT !.reply = "balance",
                                                 !.amount = user.balance])
    IN Reply(Access(task, user, call))

\* the window test with `<=` for `<`: a claim at exactly 24 hours is refused
InWindow_inclusive(user, now) ==
    /\ user.last_daily_bonus # NoStamp
    /\ now - fromisoformat(user.last_daily_bonus) <= DaySeconds

\* the 24-hour window test of daily_bonus
InWindow(user, now) ==
    /\ user.last_daily_bonus # NoStamp
    /\ now - fromisoformat(user.last_daily_bonus) < DaySeconds

\* hours and minutes of the remaining wait
RemainingWait(user, now) ==
    LET remaining == DaySeconds - (now - fromisoformat(user.last_daily_bonus))
    IN <<remaining \div HourSeconds,
         (remaining % HourSeconds) \div MinuteSeconds>>

\* user.last_daily_bonus as carried to the window test (NULL for None)
StampSeconds(user) ==
    IF user.last_daily_bonus = NoStamp THEN NULL
    ELSE fromisoformat(user.last_daily_bonus)

\* daily_bonus up to datetime.utcnow(): the window test on the
\* last_daily_bonus of the User object follows the clock read
daily_bonus(task, user, call) ==
    LET Reply(a) ==
            IF a.gate # "ok" THEN Outcome(a.queue, a.done)
            ELSE Outcome(a.queue
                         \o <<StoreCall("utcnow", user.telegram_id,
                                        StampSeconds(user), NoName, "none",
                                        0)>>,
                         a.done)
    IN Reply(Access(task, user, call))

\* daily_bonus from datetime.utcnow() on: the reply inside the window, the
\* credit and the new stamp outside it
daily_bonus_at(done, c, now) ==
    LET user == [last_daily_bonus |->
                    IF c.n = NULL THEN NoStamp ELSE isoformat(c.n)]
    IN IF InWindow(user, now)
       THEN Outcome(<<>>, [done EXCEPT !.reply = "wait", !.now = now,
                                       !.wait = RemainingWait(user, now)])
       ELSE Outcome(<<StoreCall("update_balance", c.id, daily_bonus_amount,
                                NoName, "daily", 0),
                      StoreCall("set_last_daily_bonus", c.id, now, NoName,
                                "none", 0)>>,
                    [done EXCEPT !.reply = "daily_bonus", !.now = now,
                                 !.amount = daily_bonus_amount])

\* check_subscription and check_subscription_callback
check_subscription(task, user, call) ==
    LET Checked(v) ==
            Outcome(v.calls,
                    [WithVerify(task, call, v) EXCEPT
                        !.reply = IF v.raised THEN "none"
                                  ELSE IF ~v.is_member
                                  THEN "subscribe_required"
                                  ELSE IF v.activated THEN "activated"
                                  ELSE "already_confirmed"])
    IN IF user.is_banned
       THEN Outcome(<<>>, [call EXCEPT !.reply = "banned"])
       ELSE Checked(Verify(task, user))

\* the inline button under the subscription prompt
check_subscription_callback(task, user, call) ==
    check_subscription(task, user, call)

\* a store read of a handler: list_referrals, list_top_referrers or the
\* get_user of admin_withdrawals
StoreRead(f, id) == StoreCall(f, id, 0, NoName, "none", 0)

\* db.list_referrals is read and the list of the invited accounts sent
\* before the balance test; the amount state is set after it
withdrawal_request(task, user, call) ==
    LET invited == <<StoreRead("list_referrals", user.telegram_id)>>
        Reply(a) ==
            IF a.gate # "ok" THEN Outcome(a.queue, a.done)
            ELSE IF user.balance < min_withdrawal
            THEN Outcome(a.queue \o invited,
                         [a.done EXCEPT !.reply = "shortfall",
                                        !.amount = user.balance])
            ELSE Outcome(a.queue \o invited
                            \o <<Answer(user.telegram_id),
                                 SetState(user.telegram_id,
                                          "waiting_for_amount")>>,
                         [a.done EXCEPT !.reply = "enter_amount"])
    IN Reply(Access(task, user, call))

\* message texts sent while the amount is awaited: plain, in fullwidth
\* digits after a space, with a space after, with an underscore between the
\* digits, and not a number
AmountTexts == {<<"1", "0">>, <<" ", "U+FF11", "5">>, <<"2", "0", " ">>,
                <<"2", "_", "5">>, <<"a">>}

\* the validation with `>=` for `>`: the whole balance cannot be withdrawn
AmountVerdict_strict(user, text) ==
    LET amount == ParseInt(text)
    IN IF ~amount.ok THEN "not_integer"
       ELSE IF amount.value < min_withdrawal THEN "below_minimum"
       ELSE IF amount.value >= user.balance THEN "insufficient"
       ELSE "created"

\* the validation of process_withdraw_amount: the reply it ends with
AmountVerdict(user, text) ==
    LET amount == ParseInt(text)
    IN IF ~amount.ok THEN "not_integer"
       ELSE IF amount.value < min_withdrawal THEN "below_minimum"
       ELSE IF amount.value > user.balance THEN "insufficient"
       ELSE "created"

\* the only send is message.answer to the sender: to_admins stays 0
process_withdraw_amount(task, user, call) ==
    LET Reply(a, id, amount, verdict) ==
            IF a.gate = "banned"
            THEN Outcome(<<Answer(id), ClearState(id)>>,
                         [a.done EXCEPT !.amount = amount])
            ELSE IF a.gate = "raised"
            THEN Outcome(a.queue, [a.done EXCEPT !.amount = amount])
            ELSE IF a.gate = "not_member"
            THEN Outcome(a.queue \o <<Answer(id), ClearState(id)>>,
                         [a.done EXCEPT !.amount = amount])
            ELSE IF verdict = "created"
            THEN Outcome(a.queue
                         \o <<StoreCall("update_balance", id, 0 - amount,
                                        NoName, "withdrawal", 0),
                              StoreCall("add_withdrawal", id, amount, NoName,
                                        "none", 0),
                              ClearState(id)>>,
                         [a.done EXCEPT !.amount = amount, !.reply = verdict,
                                        !.to_admins = 0])
            ELSE Outcome(a.queue, [a.done EXCEPT !.amount = amount,
                                                 !.reply = verdict,
                                                 !.to_admins = 0])
    IN Reply(Access(task, user, call), user.telegram_id,
             ParseInt(task.text).value, AmountVerdict(user, task.text))

\* referral_link and top_referrers behind the common opening, with the
\* store reads they make after it
MenuReply(reply, reads, task, user, call) ==
    LET Reply(a) ==
            IF a.gate # "ok" THEN Outcome(a.queue, a.done)
            ELSE Outcome(a.queue \o reads, [a.done EXCEPT !.reply = reply])
    IN Reply(Access(task, user, call))

referral_link(task, user, call) ==
    MenuReply("referral_link", <<>>, task, user, call)

\* top_referrers: db.list_top_referrers decides between the list and the
\* "no invitations yet" reply
top_referrers(task, user, call) ==
    MenuReply("top", <<StoreRead("list_top_referrers", user.telegram_id)>>,
              task, user, call)

\* support_entry: no await between ensure_user, state.clear and
\* state.set_state
support_entry(task, user, call) ==
    Outcome(<<ClearState(user.telegram_id),
              SetState(user.telegram_id, "waiting_for_message")>>,
            [call EXCEPT !.reply = "describe"])

\* texts sent while the support message is awaited (None reads as ""):
\* "/cancel", " /Cancel ", the Cyrillic cancel word with a capital, no
\* text, a blank and "help"
SupportTexts ==
    {<<"/", "c", "a", "n", "c", "e", "l">>,
     <<" ", "/", "C", "a", "n", "c", "e", "l", " ">>,
     <<"U+041E", "U+0442", "U+043C", "U+0435", "U+043D", "U+0430">>,
     <<>>, <<" ">>, <<"h", "e", "l", "p">>}

\* support_message: one send per administrator, after state.clear
support_message(task, user, call) ==
    LET cancelled == IsCancel(task.text)
        forwarded == ~cancelled /\ Len(strip(task.text)) > 0
    IN Outcome(IF cancelled \/ forwarded
               THEN <<ClearState(user.telegram_id)>> ELSE <<>>,
               [call EXCEPT
                   !.to_admins = IF forwarded THEN Cardinality(admin_ids)
                                 ELSE 0,
                   !.reply = IF cancelled THEN "cancelled"
                             ELSE IF ~forwarded THEN "need_text"
                             ELSE IF task.plan[1] = "ok" THEN "forwarded"
                             ELSE "undelivered"])

\* _ensure_user_record called on its own
EnsureCall(task, user, call) ==
    Outcome(<<>>,
            [call EXCEPT
                !.what = IF call.created THEN "created" ELSE "kept",
                !.again = (task.pre.last.op = "_ensure_user_record"
                           /\ task.pre.last.uid = task.uid
                           /\ task.pre.last.ref = task.ref
                           /\ task.pre.last.name = task.name)])

\* the handler of a user's event after _ensure_user_record returned `user`
HandlerCalls(task, user, created) ==
    LET Handler(op, call) ==
         CASE op = "cmd_start" -> cmd_start(task, user, call)
         [] op = "show_balance" -> show_balance(task, user, call)
         [] op = "daily_bonus" -> daily_bonus(task, user, call)
         [] op = "referral_link" -> referral_link(task, user, call)
         [] op = "top_referrers" -> top_referrers(task, user, call)
         [] op = "check_subscription" -> check_subscription(task, user, call)
         [] op = "check_subscription_callback" ->
                check_subscription_callback(task, user, call)
         [] op = "withdrawal_request" -> withdrawal_request(task, user, call)
         [] op = "process_withdraw_amount" ->
                process_withdraw_amount(task, user, call)
         [] op = "support_entry" -> support_entry(task, user, call)
         [] op = "support_message" -> support_message(task, user, call)
         [] OTHER -> EnsureCall(task, user, call)
    IN Handler(task.op, [Call(task) EXCEPT !.created = created])

\* count_users and sum_balances
count_users(U) == Cardinality(DOMAIN U)

RECURSIVE SumOver(_, _)
SumOver(U, S) ==
    IF S = {} THEN 0
    ELSE LET i == CHOOSE x \in S : TRUE
         IN U[i].balance + SumOver(U, S \ {i})

sum_balances(U) == SumOver(U, DOMAIN U)

\* block_user_callback (banned = TRUE) and unblock_user_callback on the
\* table read by the get_user of _set_ban_status
BanCallback(U, task, call, banned) ==
    LET Reply(r) ==
            Outcome(r.calls,
                    [call EXCEPT !.writes = r.writes, !.sent = r.sent,
                                 !.reply = IF ~r.found THEN "not_found"
                                           ELSE IF banned THEN "blocked"
                                           ELSE "unblocked"])
    IN Reply(_set_ban_status(U, task.target, banned))

block_user_callback(U, task, call) == BanCallback(U, task, call, TRUE)

unblock_user_callback(U, task, call) == BanCallback(U, task, call, FALSE)

\* withdrawal_paid and withdrawal_rejected on the table read by the
\* get_withdrawal of _update_withdrawal_status
Resolve(W, task, call, status) ==
    LET Reply(r) ==
            Outcome(r.calls,
                    IF r.found
                    THEN [call EXCEPT !.reply = "updated", !.sent = 1]
                    ELSE [call EXCEPT !.reply = "not_found"])
    IN Reply(_update_withdrawal_status(W, task.target, status, task.plan[1]))

withdrawal_paid(W, task, call) == Resolve(W, task, call, "paid")

withdrawal_rejected(W, task, call) == Resolve(W, task, call, "rejected")

\* admin_stats: count_users, then sum_balances in a second store call
admin_stats(U, task, call) ==
    Outcome(<<StoreCall("sum_balances", task.uid, 0, NoName, "none", 0)>>,
            [call EXCEPT !.reply = "stats", !.target = count_users(U)])

\* admin_broadcast_start: state.set_state comes before its first await
admin_broadcast_start(task, call) ==
    Outcome(<<SetState(task.uid, "broadcast")>>,
            [call EXCEPT !.reply = "prompt"])

\* texts sent while the broadcast text is awaited: "/cancel", "/CANCEL "
\* and "news"
BroadcastTexts ==
    {<<"/", "c", "a", "n", "c", "e", "l">>,
     <<"/", "C", "A", "N", "C", "E", "L", " ">>,
     <<"n", "e", "w", "s">>}

\* admin_broadcast_send: task.plan gives the result of send_copy per account
admin_broadcast_send(U, task, call) ==
    LET listed == list_all_users(U)
        sent == Cardinality({i \in listed.ids : task.plan[i] = "ok"})
    IN IF IsCancel(task.text)
       THEN Outcome(<<ClearState(task.uid)>>,
                    [call EXCEPT !.reply = "cancelled"])
       ELSE IF listed.raised
       THEN Outcome(<<>>, [call EXCEPT !.raised = TRUE])
       ELSE Outcome(<<ClearState(task.uid)>>,
                    [call EXCEPT !.reply = "broadcast_sent",
                                 !.attempted = Cardinality(listed.ids),
                                 !.sent = sent,
                                 !.failed = Cardinality(listed.ids) - sent])

\* the FSM context of an administrator who is writing a reply: the state
\* AdminReplyStates.waiting_for_reply with reply_target in its data
ReplyState(target) ==
    CASE target = 0 -> "waiting_for_reply:0"
      [] target = 1 -> "waiting_for_reply:1"
      [] target = 2 -> "waiting_for_reply:2"
      [] OTHER -> "waiting_for_reply:3"

ReplyStates == {ReplyState(n) : n \in {0} \cup Ids \cup UnknownIds}

\* data.get("reply_target") of a context in the reply state
reply_target(s) ==
    CHOOSE n \in {0} \cup Ids \cup UnknownIds : ReplyState(n) = s

\* support_reply_start: state.clear, state.set_state and state.update_data
\* come before its first await that suspends
support_reply_start(task, call) ==
    Outcome(<<ClearState(task.uid),
              SetState(task.uid, ReplyState(task.target))>>,
            [call EXCEPT !.reply = "reply_prompt"])

\* texts sent while the reply is awaited
ReplyTexts ==
    {<<"/", "C", "A", "N", "C", "E", "L", " ">>, <<" ">>,
     <<"h", "e", "l", "p">>}

\* support_reply_send: the target is read from the FSM data; the message to
\* the target and the report to the administrator are sent, and state.clear
\* runs in the `finally`.  task.plan[1] is the result of bot.send_message
support_reply_send(task, call) ==
    LET target == reply_target(task.pre.session[task.uid])
    IN IF IsCancel(task.text)
       THEN Outcome(<<ClearState(task.uid)>>,
                    [call EXCEPT !.reply = "cancelled"])
       ELSE IF ~Truthy(target)
       THEN Outcome(<<ClearState(task.uid)>>,
                    [call EXCEPT !.reply = "no_target"])
       ELSE IF Len(strip(task.text)) = 0
       THEN Outcome(<<>>, [call EXCEPT !.reply = "need_text"])
       ELSE Outcome(<<Answer(target), Answer(task.uid),
                      ClearState(task.uid)>>,
                    [call EXCEPT
                        !.target = target,
                        !.sent = IF task.plan[1] = "ok" THEN 1 ELSE 0,
                        !.reply = IF task.plan[1] = "ok" THEN "reply_sent"
                                  ELSE IF task.plan[1] = "forbidden"
                                  THEN "reply_blocked"
                                  ELSE "reply_failed"])

\* the orders in which sqlite may list rows of one second
TieOrders == {"rowid", "reverse"}

\* admin_withdrawals: list_withdrawals("pending"), then get_user and
\* list_referrals for every request listed; task.plan[2] is the order of
\* the rows of one second
admin_withdrawals(W, task, call) ==
    LET Listing(requests) ==
            IF Len(requests) = 0
            THEN Outcome(<<>>, [call EXCEPT !.reply = "no_pending"])
            ELSE Outcome([k \in 1..(2 * Len(requests)) |->
                             IF k % 2 = 1
                             THEN StoreRead("get_user",
                                     W[requests[(k + 1) \div 2]].telegram_id)
                             ELSE StoreRead("list_referrals",
                                     W[requests[k \div 2]].telegram_id)],
                         [call EXCEPT !.reply = "requests",
                                      !.listed = Len(requests)])
    IN Listing(list_withdrawals(W, "pending", task.plan[2]))

\* regen_pin: the new PIN is shown to whoever pressed the button
regen_pin(task, call) == Outcome(<<>>, [call EXCEPT !.reply = "pin"])

\* the callbacks and the message that test admin_ids first
Guarded ==
    {"block_user_callback", "unblock_user_callback", "withdraw_paid",
     "withdraw_rejected", "admin_stats", "admin_withdrawals",
     "admin_broadcast", "admin_broadcast_send", "support_reply_start",
     "support_reply_send"}

\* the handler of a moderator's event on the tables its first store call
\* reads; a caller outside admin_ids is answered with the denial before
\* any store call
ModeratorCalls(U, W, task) ==
    LET Handler(op, call) ==
       IF op \in Guarded /\ task.uid \notin admin_ids
       THEN Outcome(<<>>, [call EXCEPT !.reply = "denied"])
       ELSE CASE op = "block_user_callback" ->
                     block_user_callback(U, task, call)
              [] op = "unblock_user_callback" ->
                     unblock_user_callback(U, task, call)
              [] op = "withdraw_paid" -> withdrawal_paid(W, task, call)
              [] op = "withdraw_rejected" ->
                     withdrawal_rejected(W, task, call)
              [] op = "admin_stats" -> admin_stats(U, task, call)
              [] op = "admin_withdrawals" -> admin_withdrawals(W, task, call)
              [] op = "support_reply_start" ->
                     support_reply_start(task, call)
              [] op = "support_reply_send" -> support_reply_send(task, call)
              [] op = "admin_broadcast" -> admin_broadcast_start(task, call)
              [] op = "admin_broadcast_send" ->
                     admin_broadcast_send(U, task, call)
              [] OTHER -> regen_pin(task, call)
    IN Handler(task.op, Call(task))


\* the handlers of the moderator's updates
Moderators == Guarded \cup {"admin_regen_pin"}

\* the moderator's handlers that make a store call: an administrator's
\* block, unblock, paid, rejected, statistics and list of requests, and a
\* broadcast text that does not cancel
ReadsFirst(task) ==
    /\ task.op \in Guarded => task.uid \in admin_ids
    /\ \/ task.op \in {"block_user_callback", "unblock_user_callback",
                       "withdraw_paid", "withdraw_rejected", "admin_stats",
                       "admin_withdrawals"}
       \/ /\ task.op = "admin_broadcast_send"
          /\ ~IsCancel(task.text)
----------------------------------------------------------------------------
(* The store file outlives the process: setup() keeps the rows it finds.   *)

SeedBalance == 20

\* a row left by earlier runs: subscribed, start bonus taken
SeedRow ==
    [NewRow(SeedBalance, NULL, NoName) EXCEPT !.is_subscribed = TRUE]

SeededStores ==
    {[i \in S |-> SeedRow] : S \in SUBSET Ids}

\* asyncio.Lock() of Database.__init__: not held, nobody waiting; `at` is
\* the place of each handler in _locked_connection: "out" of it, "waiting"
\* for the lock, in the "connect" thread, at the "execute" of its
\* statement, in the "close" thread
FreeLock ==
    [locked |-> FALSE, waiters |-> <<>>,
     at |-> [t \in 1..MaxTasks |-> "out"]]

\* what is kept of the record of the run before: whose it was, what it was
\* called with and what its subscription check did
Remembered(call) ==
    [Blank EXCEPT !.op = call.op, !.uid = call.uid, !.ref = call.ref,
                  !.name = call.name, !.member = call.member,
                  !.what = call.what, !.referral = call.referral,
                  !.start_bonus_awarded = call.start_bonus_awarded,
                  !.before = call.before]

\* what a handler found at its first store call: the tables and the
\* sessions, with the record of the run before it
Snapshot(before) ==
    [users |-> users, withdrawals |-> withdrawals, session |-> session,
     notices |-> notices, last |-> before]

NoSnapshot ==
    [users |-> <<>>, withdrawals |-> <<>>,
     session |-> [i \in Ids |-> "none"], notices |-> <<>>, last |-> Blank]

\* a task slot with no handler in it.  pc is the place of the handler:
\* "read" before its first store call, "create" before the create_user of
\* _ensure_user_record, "reread" before the get_user after it, "run" before
\* the next await of `queue`, "held" between the commit of a statement and
\* the release of Database._lock, "return" before its last reply (or the
\* exception that ends it)
Idle ==
    [pc |-> "idle", op |-> "none", uid |-> 0, ref |-> NULL, name |-> NoName,
     target |-> 0, status |-> "none", text |-> <<>>, plan |-> <<"ok", "ok">>,
     queue |-> <<>>, done |-> Blank, pre |-> NoSnapshot]

\* nothing applied yet by a store call
NoJournal ==
    [start |-> [i \in Ids |-> 0], referral |-> [i \in Ids |-> 0],
     debit |-> [i \in Ids |-> 0], daily |-> [i \in Ids |-> <<>>],
     runs |-> 0, faults |-> 0]

\* everything but the users table after Database.setup and the start of
\* polling
AtRest ==
    /\ withdrawals = <<>>
    /\ notices = <<>>
    /\ session = [i \in Ids |-> "none"]
    /\ tgname = [i \in Ids |-> NoName]
    /\ clock = 0
    /\ ticks = 0
    /\ tasks = [t \in 1..MaxTasks |-> Idle]
    /\ journal = NoJournal
    /\ lock = FreeLock
    /\ last = [Blank EXCEPT !.op = "init", !.before = Balances(users)]

Init == users \in SeededStores /\ AtRest

\* account 1 sent /start while not a member, and the accounts it invited
\* have confirmed since: its row, never subscribed and with the start bonus
\* unclaimed, holds their referral bonuses, one start bonus short of the
\* withdrawal minimum
InvitersStore ==
    [i \in {1} |->
        [NewRow(0, NULL, NoName) EXCEPT
            !.balance = min_withdrawal - start_bonus]]

InitInviter == users = InvitersStore /\ AtRest

\* the outcomes of the (at most two) notices one handler sends
DeliveryPlans == {<<"bad_request", "ok">>, <<"forbidden", "ok">>}

----------------------------------------------------------------------------
(* Handlers await by await.  The router picks the handler when the update *)
(* arrives; every `await db.*` of the handler then takes Database._lock    *)
(* and hands its statement to a worker thread, so the handler returns to   *)
(* the event loop at each store call and the awaits of the handlers in     *)
(* flight interleave.  A handler reads the row once (twice when it creates *)
(* it) and from then on works on its own User object: the calls it is      *)
(* going to make follow from that object, the event and the answers of     *)
(* Telegram.  The lock is released after connection.close has returned in  *)
(* its worker thread: the handler runs on, and makes the session changes   *)
(* that follow the store call, only then.                                  *)

\* the users table after one store call
Apply(U, c) ==
    CASE c.f = "create_user" -> create_user(U, c.id, 0, c.n, c.s)
      [] c.f = "assign_referrer" -> assign_referrer(U, c.id, c.n)
      [] c.f = "update_username" -> update_username(U, c.id, c.s)
      [] c.f = "update_balance" -> update_balance(U, c.id, c.n)
      [] c.f = "set_subscription" -> set_subscription(U, c.id, c.n = 1)
      [] c.f = "set_start_bonus_claimed" ->
             set_start_bonus_claimed(U, c.id, c.n = 1)
      [] c.f = "mark_reward_claimed" -> mark_reward_claimed(U, c.id)
      [] c.f = "set_reward_claimed" -> set_reward_claimed(U, c.id, c.n = 1)
      [] c.f = "set_last_daily_bonus" ->
             set_last_daily_bonus(U, c.id, isoformat(c.n))
      [] c.f = "set_ban_status" -> set_ban_status(U, c.id, c.n = 1)
      [] OTHER -> U

\* the withdrawals table after one store call
ApplyW(W, c, now) ==
    CASE c.f = "add_withdrawal" -> add_withdrawal(W, c.id, c.n, now)
      [] c.f = "set_withdrawal_status" -> set_withdrawal_status(W, c.id, c.s)
      [] OTHER -> W

\* the outcome messages delivered to the requesting account, per request,
\* after one await: bot.send_message of _update_withdrawal_status
Delivered(N, c) ==
    CASE c.f = "add_withdrawal" -> Append(N, 0)
      [] c.f = "send_outcome" -> [N EXCEPT ![c.id] = @ + c.n]
      [] OTHER -> N

\* the users table after the store calls of `queue`
RECURSIVE ApplyAll(_, _)
ApplyAll(U, queue) ==
    IF Len(queue) = 0 THEN U ELSE ApplyAll(Apply(U, Head(queue)), Tail(queue))

\* the journal after one store call on table U: the start bonus credited to
\* an account, the referral amount applied to the referrer's row on behalf
\* of a referee, the withdrawal amounts debited from an account, the times
\* at which the daily bonus was credited to an account
Journal(j, U, c) ==
    IF c.f # "update_balance" \/ ~HasUser(U, c.id) THEN j
    ELSE IF c.why = "start"
    THEN [j EXCEPT !.start[c.id] = @ + c.n]
    ELSE IF c.why \in {"referral", "reversal"}
    THEN [j EXCEPT !.referral[c.of] = @ + c.n]
    ELSE IF c.why = "withdrawal"
    THEN [j EXCEPT !.debit[c.id] = @ - c.n]
    ELSE IF c.why = "daily"
    THEN [j EXCEPT !.daily[c.id] = Append(@, clock)]
    ELSE j

\* `last` after a step of a handler in flight
StepRecord(op, uid, n, why) ==
    [Blank EXCEPT !.op = op, !.uid = uid, !.amount = n, !.what = why]

\* the session changes: they are made, with no await between, when the
\* handler runs on from the await before them
Local == {"state_set", "state_clear"}

\* the awaits that take no Database._lock: the sends and the clock read
Unlocked == {"answer", "send_outcome", "utcnow"} \cup Local

\* the awaits left once the session changes at the head of `queue` are made
RECURSIVE AfterLocal(_)
AfterLocal(queue) ==
    IF Len(queue) > 0 /\ Head(queue).f \in Local
    THEN AfterLocal(Tail(queue))
    ELSE queue

\* the sessions once the session changes at the head of `queue` are made
RECURSIVE SessionAfter(_, _)
SessionAfter(S, queue) ==
    IF Len(queue) > 0 /\ Head(queue).f \in Local
    THEN SessionAfter([S EXCEPT ![Head(queue).id] =
                          IF Head(queue).f = "state_set" THEN Head(queue).s
                          ELSE "none"],
                      Tail(queue))
    ELSE S

\* the task slot of a handler that has the awaits of p.queue to make and
\* ends with the record p.done.  `committed` tells that its last step was a
\* statement of the store: when session changes follow, the handler still
\* holds the lock (asyncio.to_thread(connection.close)) and makes them as
\* it leaves _locked_connection
Running(task, p, committed) ==
    [Idle EXCEPT !.pc = IF Len(p.queue) = 0 THEN "return"
                        ELSE IF committed /\ Head(p.queue).f \in Local
                        THEN "held"
                        ELSE "run",
                 !.op = task.op, !.uid = task.uid, !.plan = task.plan,
                 !.queue = p.queue, !.done = p.done,
                 !.pre = task.pre]

\* Database._lock is not held by another handler that has still to run on
\* from its statement
LockFree(t) == \A u \in 1..MaxTasks : u # t => tasks[u].pc # "held"

\* _ensure_user_record after the get_user that returned `user`, and the
\* handler after it
Planned(task, user, created) ==
    LET After(h) ==
            Outcome(EnsureCalls(user, task.name, task.ref, created)
                    \o h.queue,
                    h.done)
    IN After(HandlerCalls(task,
                 EnsuredUser(user, task.name, task.ref, created), created))

\* no handler is mid-execution
Quiescent == \A t \in 1..MaxTasks : tasks[t].pc = "idle"

\* the update is handled in slot t.  One at a time: it arrives after the
\* handler of the update before it has returned.  Otherwise it arrives
\* whatever the other handlers are doing, MaxRuns times in a run.
CanStart(t, one_at_a_time) ==
    /\ tasks[t].pc = "idle"
    /\ IF one_at_a_time THEN t = 1 /\ Quiescent
       ELSE journal.runs < MaxRuns

\* the handler keeps the model's bounds: balances are followed down to
\* -MaxDebt, the withdrawals table up to MaxWithdrawals rows
Foreseen(queue) ==
    /\ \A i \in DOMAIN users :
          ApplyAll(users, queue)[i].balance >= 0 - MaxDebt
    /\ (\E k \in 1..Len(queue) : queue[k].f = "add_withdrawal")
          => Len(withdrawals) < MaxWithdrawals

\* the router's filters in the order of registration: the amount state
\* takes every text but the menu buttons registered before it, the support
\* button included
Routed(op, telegram_id) ==
    /\ op = "process_withdraw_amount"
          => session[telegram_id] = "waiting_for_amount"
    /\ op = "support_entry" => session[telegram_id] # "waiting_for_amount"
    /\ op = "support_message" => session[telegram_id] = "waiting_for_message"
    /\ op = "support_reply_send" => session[telegram_id] \in ReplyStates
    /\ op = "admin_broadcast_send" => session[telegram_id] = "broadcast"

\* the handler of `task` from its first store call on, made on the tables
\* as they are: get_user of _ensure_user_record (no plan yet when the row is
\* missing), or the first read of a moderator's handler
FirstPlan(task) ==
    LET Plan(found) ==
            IF found.op \in Moderators
            THEN ModeratorCalls(users, withdrawals, found)
            ELSE IF EnsureBranch(users, found.uid) = "found"
            THEN Planned(found, UserObject(users, found.uid), FALSE)
            ELSE Outcome(<<>>, Blank)
    IN Plan([task EXCEPT !.pre = Snapshot(task.pre.last)])

\* the update of a user arrives: the router's filters are tested on the
\* session as it is and the handler is started; its first await is the
\* get_user of _ensure_user_record
Dispatch(t, op, telegram_id, username, referred_by, target, text, status, plan, one_at_a_time) ==
    /\ CanStart(t, one_at_a_time)
    /\ Routed(op, telegram_id)
    /\ \E task \in {[Idle EXCEPT !.pc = "read", !.op = op,
                                 !.uid = telegram_id, !.ref = referred_by,
                                 !.name = username, !.target = target,
                                 !.status = status, !.text = text,
                                 !.plan = plan,
                                 !.pre = [NoSnapshot EXCEPT
                                             !.last = Remembered(last)]]} :
       /\ one_at_a_time => Foreseen(FirstPlan(task).queue)
       /\ tasks' = [tasks EXCEPT ![t] = task]
       /\ journal' = IF one_at_a_time THEN journal
                     ELSE [journal EXCEPT !.runs = @ + 1]
       /\ last' = StepRecord("update", telegram_id, 0, "none")
       /\ UNCHANGED <<users, withdrawals, session, tgname, clock, ticks,
                      notices>>

\* /start: the deep-link parameter is parsed before any await; int()
\* raising on it ends the handler there
StartCommand(t, telegram_id, args, status, plan, one_at_a_time) ==
    /\ CanStart(t, one_at_a_time)
    /\ \E parsed \in {ParseReferral(args, telegram_id)} :
       IF parsed.raised
       THEN /\ last' = [Call([Idle EXCEPT
                                 !.op = "cmd_start", !.uid = telegram_id,
                                 !.pre = Snapshot(Remembered(last))])
                           EXCEPT !.raised = TRUE, !.reply = "value_error"]
            /\ UNCHANGED <<users, withdrawals, session, tgname, clock, ticks,
                           notices, tasks, journal>>
       ELSE Dispatch(t, "cmd_start", telegram_id, tgname[telegram_id],
                     parsed.referred_by, DeepLink(args), <<>>, status, plan,
                     one_at_a_time)

\* the update of a moderator arrives: the filters and admin_ids are tested.
\* A handler that makes a store call (get_user, get_withdrawal, count_users
\* or list_all_users) awaits it next; the others go on to their answer,
\* with the session change that precedes it
Moderate(t, op, caller, target, text, plan, one_at_a_time) ==
    /\ CanStart(t, one_at_a_time)
    /\ Routed(op, caller)
    /\ \E task \in {[Idle EXCEPT !.pc = "read", !.op = op, !.uid = caller,
                                 !.target = target, !.text = text,
                                 !.plan = plan,
                                 !.pre = Snapshot(Remembered(last))]} :
       \E p \in {ModeratorCalls(users, withdrawals, task)} :
       \E reads \in {ReadsFirst(task)} :
       /\ (/\ one_at_a_time
           /\ \E k \in 1..Len(p.queue) : p.queue[k].f = "send_outcome")
             => notices[target] < MaxResolutions
       /\ tasks' = [tasks EXCEPT ![t] =
                       IF reads THEN task
                       ELSE Running(task,
                                    Outcome(AfterLocal(p.queue), p.done),
                                    FALSE)]
       /\ session' = IF reads THEN session
                     ELSE SessionAfter(session, p.queue)
       /\ journal' = IF one_at_a_time THEN journal
                     ELSE [journal EXCEPT !.runs = @ + 1]
       /\ last' = StepRecord("update", caller, 0, "none")
       /\ UNCHANGED <<users, withdrawals, tgname, clock, ticks, notices>>

\* the first store call of a handler: the get_user of _ensure_user_record
\* (or of _set_ban_status), get_withdrawal, count_users, list_withdrawals
\* or list_all_users.
\* What the handler does next follows from what the call returns
ReadRow(t) ==
    /\ tasks[t].pc = "read"
    /\ LockFree(t)
    /\ \E task \in {[tasks[t] EXCEPT !.pre = Snapshot(tasks[t].pre.last)]} :
       \E creates \in {/\ task.op \notin Moderators
                       /\ EnsureBranch(users, task.uid) # "found"} :
       /\ tasks' = [tasks EXCEPT ![t] =
                       IF creates THEN [task EXCEPT !.pc = "create"]
                       ELSE Running(task, FirstPlan(task), TRUE)]
       /\ last' = StepRecord("get_user", task.uid, 0, "none")
       /\ UNCHANGED <<users, withdrawals, session, tgname, clock, ticks,
                      notices, journal>>

\* _ensure_user_record found no row: create_user (INSERT OR IGNORE)
CreateRow(t) ==
    /\ tasks[t].pc = "create"
    /\ LockFree(t)
    /\ users' = create_user(users, tasks[t].uid, 0, tasks[t].ref,
                            tasks[t].name)
    /\ tasks' = [tasks EXCEPT ![t].pc = "reread"]
    /\ last' = StepRecord("create_user", tasks[t].uid, 0, "none")
    /\ UNCHANGED <<withdrawals, session, tgname, clock, ticks, notices,
                   journal>>

\* the get_user after create_user, and the rest of the handler planned on it
Reread(t) ==
    /\ tasks[t].pc = "reread"
    /\ LockFree(t)
    /\ \E task \in {tasks[t]} :
       \E p \in {Planned(task, UserObject(users, task.uid), TRUE)} :
       /\ tasks' = [tasks EXCEPT ![t] = Running(task, p, TRUE)]
       /\ last' = StepRecord("get_user", task.uid, 1, "none")
       /\ UNCHANGED <<users, withdrawals, session, tgname, clock, ticks,
                      notices, journal>>

\* the record of a handler after the store read c on the table U:
\* sum_balances is the second read of admin_stats, list_referrals gives
\* withdrawal_request the accounts it lists, list_top_referrers decides the
\* reply of top_referrers, and the get_user of admin_withdrawals tells
\* whether the account of a request is shown as blocked
Noted(done, c, U) ==
    CASE c.f = "sum_balances" -> [done EXCEPT !.amount = sum_balances(U)]
      [] c.f = "list_referrals" /\ done.op = "withdrawal_request" ->
             [done EXCEPT !.listed = Cardinality(list_referrals(U, c.id))]
      [] c.f = "list_top_referrers" ->
             [done EXCEPT
                 !.listed = Cardinality(list_top_referrers(U)),
                 !.reply = IF list_top_referrers(U) = {} THEN "top_empty"
                           ELSE "top"]
      [] c.f = "get_user" ->
             [done EXCEPT
                 !.blocked = IF HasUser(U, c.id) /\ U[c.id].is_banned
                             THEN @ + 1 ELSE @]
      [] OTHER -> done

\* the next store call or send of a handler in flight.  A store call waits
\* for the lock.
StoreStep(t) ==
    /\ tasks[t].pc = "run"
    /\ \E c \in {Head(tasks[t].queue)} :
       \E rest \in {Tail(tasks[t].queue)} :
       /\ c.f \notin Local \cup {"utcnow"}
       /\ c.f \notin Unlocked => LockFree(t)
       /\ c.f = "add_withdrawal" => Len(withdrawals) < MaxWithdrawals
       /\ c.f = "send_outcome" => notices[c.id] < MaxResolutions
       /\ users' = Apply(users, c)
       /\ withdrawals' = ApplyW(withdrawals, c, clock)
       /\ notices' = Delivered(notices, c)
       /\ journal' = Journal(journal, users, c)
       /\ tasks' =
            [tasks EXCEPT ![t] =
                Running(tasks[t],
                        Outcome(rest, Noted(tasks[t].done, c, users)),
                        c.f \notin Unlocked)]
       /\ last' = StepRecord(c.f, c.id, c.n, c.why)
       /\ UNCHANGED <<session, tgname, clock, ticks>>

\* the handler runs on to its next await and makes the session changes on
\* its way: state.clear and state.set_state.  After a store call this is
\* the turn in which it leaves _locked_connection
Resume(t) ==
    /\ tasks[t].pc \in {"held", "run"}
    /\ Head(tasks[t].queue).f \in Local
    /\ session' = SessionAfter(session, tasks[t].queue)
    /\ tasks' = [tasks EXCEPT ![t] =
                    Running(tasks[t],
                            Outcome(AfterLocal(tasks[t].queue),
                                    tasks[t].done),
                            FALSE)]
    /\ last' = StepRecord("state", tasks[t].uid, 0, "none")
    /\ UNCHANGED <<users, withdrawals, tgname, clock, ticks, notices,
                   journal>>

\* daily_bonus reads datetime.utcnow() and tests the window on the
\* last_daily_bonus of its User object
ReadClock(t) ==
    /\ tasks[t].pc = "run"
    /\ \E c \in {Head(tasks[t].queue)} :
       \E now \in {clock} :
       /\ c.f = "utcnow"
       /\ tasks' = [tasks EXCEPT ![t] =
                       Running(tasks[t],
                               daily_bonus_at(tasks[t].done, c, now),
                               FALSE)]
       /\ last' = StepRecord("utcnow", c.id, now, "none")
       /\ UNCHANGED <<users, withdrawals, session, tgname, clock, ticks,
                      notices, journal>>

\* the handler returns: its last reply is sent, or the exception that ended
\* it reaches the dispatcher
Return(t) ==
    /\ tasks[t].pc = "return"
    /\ last' = tasks[t].done
    /\ tasks' = [tasks EXCEPT ![t] = Idle]
    /\ UNCHANGED <<users, withdrawals, session, tgname, clock, ticks, notices,
                   journal>>

\* the next store call raises (sqlite3.Error out of Database._execute,
\* _fetchone or _fetchall), the first read of the handler included: the
\* exception leaves the handler, its remaining calls are never made
StoreFailure(t) ==
    /\ \/ tasks[t].pc \in {"read", "create", "reread"}
       \/ tasks[t].pc = "run" /\ Head(tasks[t].queue).f \notin Unlocked
    /\ LockFree(t)
    /\ journal.faults < MaxFaults
    /\ tasks' = [tasks EXCEPT ![t] = Idle]
    /\ journal' = [journal EXCEPT !.faults = @ + 1]
    /\ last' = [Blank EXCEPT !.op = tasks[t].op, !.uid = tasks[t].uid,
                             !.what = "store_error", !.raised = TRUE]
    /\ UNCHANGED <<users, withdrawals, session, tgname, clock, ticks,
                   notices>>

\* the wall clock read by datetime.utcnow()
ClockSteps == {1, MinuteSeconds, DaySeconds - MinuteSeconds}

\* between the handlers of updates that come one at a time the clock is
\* moved before the next one starts: a handler reads it once
Tick(step, one_at_a_time) ==
    /\ ticks < MaxTicks
    /\ one_at_a_time => Quiescent
    /\ clock' = clock + step
    /\ ticks' = ticks + 1
    /\ last' = [Blank EXCEPT !.op = "tick"]
    /\ UNCHANGED <<users, withdrawals, session, tgname, notices>>

\* a Telegram user changes the username of the account
Rename(telegram_id, username, one_at_a_time) ==
    /\ tgname[telegram_id] # username
    /\ one_at_a_time => Quiescent
    /\ tgname' = [tgname EXCEPT ![telegram_id] = username]
    /\ last' = [Blank EXCEPT !.op = "rename"]
    /\ UNCHANGED <<users, withdrawals, session, clock, ticks, notices>>

----------------------------------------------------------------------------
(* The updates.  S is the set of accounts that send the update; it is      *)
(* handled after the handler of the update before it has returned.         *)

UserUpdate(op, u, text, s, d) ==
    Dispatch(1, op, u, tgname[u], NULL, 0, text, s, d, TRUE)
    /\ UNCHANGED lock

\* A is the set of command arguments the /start updates carry
Start(S, A) ==
    \E u \in S, args \in A, s \in ChatStatuses, d \in DeliveryPlans :
       StartCommand(1, u, args, s, d, TRUE) /\ UNCHANGED lock

Balance(S) ==
    \E u \in S, s \in ChatStatuses, d \in DeliveryPlans :
       UserUpdate("show_balance", u, <<>>, s, d)

Daily(S) ==
    \E u \in S, s \in ChatStatuses, d \in DeliveryPlans :
       UserUpdate("daily_bonus", u, <<>>, s, d)

Check(S) ==
    \E u \in S, s \in ChatStatuses, d \in DeliveryPlans :
       UserUpdate("check_subscription", u, <<>>, s, d)

WithdrawRequest(S) ==
    \E u \in S, s \in ChatStatuses, d \in DeliveryPlans :
       UserUpdate("withdrawal_request", u, <<>>, s, d)

WithdrawAmount(S) ==
    \E u \in S, text \in AmountTexts, s \in ChatStatuses, d \in DeliveryPlans :
       UserUpdate("process_withdraw_amount", u, text, s, d)

Link(S) ==
    \E u \in S, s \in ChatStatuses, d \in DeliveryPlans :
       UserUpdate("referral_link", u, <<>>, s, d)

Top(S) ==
    \E u \in S, s \in ChatStatuses, d \in DeliveryPlans :
       UserUpdate("top_referrers", u, <<>>, s, d)

CheckButton(S) ==
    \E u \in S, s \in ChatStatuses, d \in DeliveryPlans :
       UserUpdate("check_subscription_callback", u, <<>>, s, d)

Support(S) ==
    \E u \in S : UserUpdate("support_entry", u, <<>>, "member", <<"ok", "ok">>)

SupportText(S) ==
    \E u \in S, text \in SupportTexts, d \in Deliveries :
       UserUpdate("support_message", u, text, "member", <<d, "ok">>)

\* referrer arguments of a direct call: None, 0, the ids and an unknown id
RefArgs == {NULL, 0} \cup Ids \cup UnknownIds

\* _ensure_user_record called on its own, with any referrer and name
Ensure(S) ==
    \E u \in S, n \in Names, r \in RefArgs :
       Dispatch(1, "_ensure_user_record", u, n, r, 0, <<>>, "member",
                <<"ok", "ok">>, TRUE)
       /\ UNCHANGED lock

ModeratorUpdate(op, caller, target, text, plan) ==
    Moderate(1, op, caller, target, text, plan, TRUE) /\ UNCHANGED lock

Stats ==
    \E caller \in Ids :
       ModeratorUpdate("admin_stats", caller, 0, <<>>, <<"ok", "ok">>)

BroadcastStart ==
    \E caller \in Ids :
       ModeratorUpdate("admin_broadcast", caller, 0, <<>>, <<"ok", "ok">>)

RegenPin ==
    \E caller \in Ids :
       ModeratorUpdate("admin_regen_pin", caller, 0, <<>>, <<"ok", "ok">>)

BroadcastSend ==
    \E caller \in Ids, text \in BroadcastTexts, outcome \in [Ids -> Deliveries] :
       ModeratorUpdate("admin_broadcast_send", caller, 0, text, outcome)

\* the list of the pending requests
ListWithdrawals ==
    \E caller \in Ids, ties \in TieOrders :
       ModeratorUpdate("admin_withdrawals", caller, 0, <<>>, <<"ok", ties>>)

\* the reply button under a support message of account T
ReplyStart(T) ==
    \E caller \in Ids, user_id \in T :
       ModeratorUpdate("support_reply_start", caller, user_id, <<>>,
                       <<"ok", "ok">>)

\* a text sent while the reply is awaited
ReplySend ==
    \E caller \in Ids, text \in ReplyTexts, d \in Deliveries :
       ModeratorUpdate("support_reply_send", caller, 0, text, <<d, "ok">>)

\* C is the set of accounts that press the moderator's buttons, T the set
\* of ids the buttons name
Block(C, T) ==
    \E caller \in C, user_id \in T :
       ModeratorUpdate("block_user_callback", caller, user_id, <<>>,
                       <<"ok", "ok">>)

Unblock(C, T) ==
    \E caller \in C, user_id \in T :
       ModeratorUpdate("unblock_user_callback", caller, user_id, <<>>,
                       <<"ok", "ok">>)

Paid(C) ==
    \E caller \in C, request_id \in 1..(MaxWithdrawals + 1),
       d \in Deliveries :
       ModeratorUpdate("withdraw_paid", caller, request_id, <<>>,
                       <<d, "ok">>)

Rejected(C) ==
    \E caller \in C, request_id \in 1..(MaxWithdrawals + 1),
       d \in Deliveries :
       ModeratorUpdate("withdraw_rejected", caller, request_id, <<>>,
                       <<d, "ok">>)

Clock == \E step \in ClockSteps : Tick(step, TRUE) /\ UNCHANGED inflight

Renamed(S) ==
    \E u \in S, n \in Names : Rename(u, n, TRUE) /\ UNCHANGED inflight

(* The same updates arriving whatever the handlers in flight are doing:  *)
(* polling hands every update to a task of its own.                       *)

\* deep links of the racing /start updates of account 1: none, account 2,
\* an unknown account
RaceArgs == {<<>>, <<"r", "e", "f", "2">>, <<"r", "e", "f", "U+0663">>}

StartRace(S) ==
    \E t \in 1..MaxTasks, u \in S, args \in RaceArgs, s \in ChatStatuses :
       StartCommand(t, u, args, s, <<"ok", "ok">>, FALSE)
       /\ UNCHANGED lock

CheckRace(S) ==
    \E t \in 1..MaxTasks, u \in S, s \in ChatStatuses :
       Dispatch(t, "check_subscription_callback", u, tgname[u], NULL, 0,
                <<>>, s, <<"ok", "ok">>, FALSE)
       /\ UNCHANGED lock

AmountRace(S) ==
    \E t \in 1..MaxTasks, u \in S, text \in AmountTexts, s \in ChatStatuses :
       Dispatch(t, "process_withdraw_amount", u, tgname[u], NULL, 0, text, s,
                <<"ok", "ok">>, FALSE)
       /\ UNCHANGED lock

\* the menu buttons pressed while other handlers of the account are in
\* flight
RaceButtons ==
    {"show_balance", "check_subscription", "withdrawal_request",
     "referral_link", "top_referrers", "support_entry"}

MenuRace(S) ==
    \E t \in 1..MaxTasks, u \in S, op \in RaceButtons, s \in ChatStatuses :
       Dispatch(t, op, u, tgname[u], NULL, 0, <<>>, s, <<"ok", "ok">>, FALSE)
       /\ UNCHANGED lock

\* referrers of the racing first contacts of account 1
RaceRefs == {NULL, 1, 2, 3}

\* first contacts of one account: _ensure_user_record with any referrer
EnsureRace(S) ==
    \E t \in 1..MaxTasks, u \in S, r \in RaceRefs :
       Dispatch(t, "_ensure_user_record", u, tgname[u], r, 0, <<>>, "member",
                <<"ok", "ok">>, FALSE)
       /\ UNCHANGED lock

DailyRace(S) ==
    \E t \in 1..MaxTasks, u \in S, s \in ChatStatuses :
       Dispatch(t, "daily_bonus", u, tgname[u], NULL, 0, <<>>, s,
                <<"ok", "ok">>, FALSE)
       /\ UNCHANGED lock

\* a text sent by an account that is writing to the support while other
\* handlers are in flight
SupportRace(S) ==
    \E t \in 1..MaxTasks, u \in S, text \in SupportTexts, d \in Deliveries :
       Dispatch(t, "support_message", u, tgname[u], NULL, 0, text, "member",
                <<d, "ok">>, FALSE)
       /\ UNCHANGED lock

\* the moderator's updates Ops of the callers C, naming the ids T or
\* carrying the texts X, sent while other handlers are in flight; P gives
\* the results of the sends
ModeratorRace(C, Ops, T, X, P) ==
    \E t \in 1..MaxTasks, caller \in C, op \in Ops, target \in T,
       text \in X, plan \in P :
       Moderate(t, op, caller, target, text, plan, FALSE)
       /\ UNCHANGED lock

(* The steps of the handlers in flight *)

Now == \E t \in 1..MaxTasks : ReadClock(t) /\ UNCHANGED lock

\* a handler makes its first store call
Read == \E t \in 1..MaxTasks : ReadRow(t) /\ UNCHANGED lock

\* a handler runs on from an await to its session changes
Resumes == \E t \in 1..MaxTasks : Resume(t) /\ UNCHANGED lock

\* a handler that found no row creates it and reads it
Arrive ==
    \E t \in 1..MaxTasks : (CreateRow(t) \/ Reread(t)) /\ UNCHANGED lock

Proceed == \E t \in 1..MaxTasks : StoreStep(t) /\ UNCHANGED lock

Returns == \E t \in 1..MaxTasks : Return(t) /\ UNCHANGED lock

Fault == \E t \in 1..MaxTasks : StoreFailure(t) /\ UNCHANGED lock

\* the clock moves and the account is renamed while handlers are in flight
ClockRace ==
    \E step \in ClockSteps : Tick(step, FALSE) /\ UNCHANGED inflight

RenamedRace(S) ==
    \E u \in S, n \in Names : Rename(u, n, FALSE) /\ UNCHANGED inflight

----------------------------------------------------------------------------
(* Database._locked_connection: every store call takes Database._lock,     *)
(* opens a connection in a worker thread, runs its statement, closes the   *)
(* connection in a worker thread and releases the lock.                    *)

store == <<users, withdrawals, session, tgname, clock, ticks, notices, last,
           tasks, journal>>

\* the places of _locked_connection at which the lock is held
Inside == {"connect", "execute", "close"}

\* Lock.acquire takes the lock at once under any state of the lock
CanAcquire_always(l) == TRUE

\* Lock.acquire takes the lock at once when it is free and nobody waits
CanAcquire(l) == ~l.locked /\ l.waiters = <<>>

\* `async with self._lock` on entry
acquire(l, t) ==
    IF CanAcquire(l)
    THEN [l EXCEPT !.locked = TRUE, !.at[t] = "connect"]
    ELSE [l EXCEPT !.waiters = Append(@, t), !.at[t] = "waiting"]

\* leaving `async with self._lock` with the lock kept
release_keeps_lock(l, t) == [l EXCEPT !.at[t] = "out"]

\* `async with self._lock` on exit: Lock.release
release(l, t) == [l EXCEPT !.locked = FALSE, !.at[t] = "out"]

\* an update arrives: the subscription check of account 1
Update(t) ==
    /\ lock.at[t] = "out"
    /\ \E s \in ChatStatuses :
          Dispatch(t, "check_subscription_callback", 1, tgname[1], NULL, 0,
                   <<>>, s, <<"ok", "ok">>, FALSE)
    /\ UNCHANGED lock

\* a handler in flight reaches its next store call
Acquire(t) ==
    /\ lock.at[t] = "out"
    /\ \/ tasks[t].pc \in {"read", "create", "reread"}
       \/ tasks[t].pc = "run" /\ Head(tasks[t].queue).f \notin Unlocked
    /\ lock' = acquire(lock, t)
    /\ UNCHANGED store

\* the released lock goes to the handler that has waited longest
Wake(t) ==
    /\ lock.at[t] = "waiting"
    /\ ~lock.locked
    /\ Head(lock.waiters) = t
    /\ lock' = [lock EXCEPT !.locked = TRUE, !.waiters = Tail(@),
                            !.at[t] = "connect"]
    /\ UNCHANGED store

\* asyncio.to_thread(self._connect) returns
Connect(t) ==
    /\ lock.at[t] = "connect"
    /\ lock' = [lock EXCEPT !.at[t] = "execute"]
    /\ UNCHANGED store

\* the get_user that opens a handler
FirstRead(t) ==
    /\ lock.at[t] = "execute"
    /\ ReadRow(t)
    /\ lock' = [lock EXCEPT !.at[t] = "close"]

\* the statement of any later store call
Statement(t) ==
    /\ lock.at[t] = "execute"
    /\ CreateRow(t) \/ Reread(t) \/ StoreStep(t)
    /\ lock' = [lock EXCEPT !.at[t] = "close"]

\* the statement raises: the handler is left through the `finally`
FailedStatement(t) ==
    /\ lock.at[t] = "execute"
    /\ StoreFailure(t)
    /\ lock' = [lock EXCEPT !.at[t] = "close"]

\* asyncio.to_thread(connection.close) returns and the lock is released
Close(t) ==
    /\ lock.at[t] = "close"
    /\ lock' = release(lock, t)
    /\ UNCHANGED store

\* the handler returns once its last store call has left the lock
Leave(t) ==
    /\ lock.at[t] = "out"
    /\ Return(t)
    /\ UNCHANGED lock

\* one step of handler t
Step(t) ==
    \/ Update(t) \/ Acquire(t) \/ Wake(t) \/ Connect(t) \/ FirstRead(t)
    \/ Statement(t)
    \/ FailedStatement(t) \/ Close(t) \/ Leave(t)

----------------------------------------------------------------------------
(* The bot and the parts of it the properties are checked on *)

\* the handlers in flight make their next await
Handle == Read \/ Arrive \/ Proceed \/ Returns

\* the whole bot
Next ==
    \/ Start(Ids, StartArgs) \/ Balance(Ids) \/ Daily(Ids) \/ Check(Ids)
    \/ CheckButton(Ids) \/ Link(Ids) \/ Top(Ids)
    \/ WithdrawRequest(Ids) \/ WithdrawAmount(Ids)
    \/ Support(Ids) \/ SupportText(Ids)
    \/ Block(Ids, Ids \cup UnknownIds) \/ Unblock(Ids, Ids \cup UnknownIds)
    \/ Paid(Ids) \/ Rejected(Ids)
    \/ Stats \/ BroadcastStart \/ BroadcastSend \/ RegenPin
    \/ ListWithdrawals \/ ReplyStart({0} \cup Ids \cup UnknownIds)
    \/ ReplySend
    \/ StartRace(Ids) \/ CheckRace(Ids) \/ DailyRace(Ids)
    \/ AmountRace(Ids) \/ MenuRace(Ids) \/ SupportRace(Ids)
    \/ ModeratorRace(Ids, Moderators, Ids \cup UnknownIds,
                     BroadcastTexts \cup ReplyTexts,
                     [Ids -> Deliveries] \cup {<<"ok", o>> : o \in TieOrders})
    \/ Clock \/ Renamed(Ids) \/ ClockRace \/ RenamedRace(Ids)
    \/ Handle \/ Resumes \/ Now \/ Fault

Spec == Init /\ [][Next]_vars

\* the referral ledger: account 1 arrives over /start with a deep link and
\* checks its subscription
NextReferral == Start({1}, StartArgs) \/ Check({1}) \/ Handle

SpecReferral == Init /\ [][NextReferral]_vars

\* the daily bonus and the balance of one account over the wall clock
NextDaily ==
    \/ Daily({1}) \/ Balance({1}) \/ Clock \/ Renamed({1})
    \/ Block(admin_ids, {1}) \/ Unblock(admin_ids, {1}) \/ Handle \/ Now

SpecDaily == Init /\ [][NextDaily]_vars

\* the withdrawal workflow of one account and the moderator's actions
NextWithdraw ==
    \/ WithdrawRequest({1}) \/ WithdrawAmount({1})
    \/ Paid(admin_ids) \/ Rejected(admin_ids)
    \/ Block(admin_ids, {1} \cup UnknownIds)
    \/ Unblock(admin_ids, {1} \cup UnknownIds)
    \/ Renamed({1}) \/ Handle \/ Resumes

SpecWithdraw == Init /\ [][NextWithdraw]_vars

\* _ensure_user_record called as a unit
NextEnsure == Ensure(Ids) \/ Handle

SpecEnsure == Init /\ [][NextEnsure]_vars

\* /start of the menu slice: plain, and over the link of account 2
MenuArgs == {<<>>, <<"r", "e", "f", "2">>}

\* every user-facing handler of account 1, and the moderator banning it
NextMenu ==
    \/ Start({1}, MenuArgs) \/ Balance({1}) \/ Daily({1}) \/ Link({1})
    \/ Top({1})
    \/ Check({1}) \/ CheckButton({1}) \/ WithdrawRequest({1})
    \/ WithdrawAmount({1}) \/ Block(admin_ids, {1}) \/ Handle \/ Resumes
    \/ Now

SpecMenu == Init /\ [][NextMenu]_vars

\* the withdrawal of an account that subscribes after its invitations paid
NextThreshold ==
    \/ WithdrawRequest({1}) \/ WithdrawAmount({1}) \/ Balance({1})
    \/ Daily({1}) \/ Clock \/ Read \/ Proceed \/ Resumes \/ Returns \/ Now

SpecThreshold == InitInviter /\ [][NextThreshold]_vars

\* the menu and the support dialogue of account 1 around an awaited amount
NextSession ==
    \/ WithdrawRequest({1}) \/ WithdrawAmount({1}) \/ Balance({1})
    \/ Link({1}) \/ Support({1}) \/ SupportText({1})
    \/ Block(admin_ids, {1})
    \/ Handle \/ Resumes

SpecSession == Init /\ [][NextSession]_vars

\* the moderator's buttons, pressed by the administrator and by account 2
NextModerator ==
    \/ Block(Ids, {2}) \/ Unblock(Ids, {2}) \/ Paid(Ids) \/ Rejected(Ids)
    \/ Stats \/ BroadcastStart \/ BroadcastSend \/ RegenPin
    \/ ListWithdrawals \/ ReplyStart({2}) \/ ReplySend
    \/ WithdrawRequest({2}) \/ WithdrawAmount({2}) \/ Handle \/ Resumes

\* the moderator starts on the empty table or on the table of both accounts
InitModerator == Init /\ DOMAIN users \in {{}, Ids}

SpecModerator == InitModerator /\ [][NextModerator]_vars

\* /start and the subscription check of account 1 racing each other
NextRace == StartRace({1}) \/ CheckRace({1}) \/ Handle

SpecRace == Init /\ [][NextRace]_vars

\* the handlers of account 1 passing through Database._locked_connection
NextLock == \E t \in 1..MaxTasks : Step(t)

SpecLock == Init /\ [][NextLock]_vars

\* the same from the empty store, with an event loop that runs every task
\* that can run
InitEmpty == Init /\ users = << >>

FairLock ==
    \A t \in 1..MaxTasks :
       WF_vars((tasks[t].pc # "idle" \/ lock.at[t] # "out") /\ Step(t))

SpecLockFair == InitEmpty /\ [][NextLock]_vars /\ FairLock

\* _ensure_user_record calls of account 1 racing each other
NextEnsureRace == EnsureRace({1}) \/ Handle \/ RenamedRace({1})

SpecEnsureRace == Init /\ [][NextEnsureRace]_vars

\* daily bonus requests of account 1 racing each other over the wall clock
NextDailyRace == DailyRace({1}) \/ Handle \/ Now \/ ClockRace

SpecDailyRace == Init /\ [][NextDailyRace]_vars

\* the withdrawal of account 1 with amounts racing each other and store
\* calls that may fail
NextOverdraw ==
    \/ WithdrawRequest({1}) \/ AmountRace({1}) \/ Handle \/ Resumes
    \/ Fault

SpecOverdraw == Init /\ [][NextOverdraw]_vars

\* account 1 arrives over links and checks its subscription while the
\* administrator blocks and unblocks account 2, its possible referrer
NextBanned ==
    \/ Start({1}, StartArgs) \/ Check({1}) \/ Handle
    \/ Block(admin_ids, {2}) \/ Unblock(admin_ids, {2})

SpecBanned == Init /\ [][NextBanned]_vars


\* the administrator's block and unblock buttons for account 2 and for an
\* unknown id, pressed whatever the handlers of the earlier presses are
\* doing
NextBanRace ==
    \/ ModeratorRace(admin_ids,
                     {"block_user_callback", "unblock_user_callback"},
                     {2} \cup UnknownIds, {<<>>}, {<<"ok", "ok">>})
    \/ Read \/ Proceed \/ Returns

SpecBanRace == Init /\ [][NextBanRace]_vars
----------------------------------------------------------------------------
(* Properties.  A handler that has made its last store call stands at      *)
(* "return": `done` is the record it ends with and `pre` the state it      *)
(* found when it started.                                                  *)

\* handler t has made its last await but the reply
Returning(t) == tasks[t].pc = "return"

\* the balance, the flags and the bonus stamp of every account
Ledger(U) ==
    [i \in DOMAIN U |->
        <<U[i].balance, U[i].is_subscribed, U[i].reward_claimed,
          U[i].start_bonus_claimed, U[i].last_daily_bonus, U[i].is_banned>>]

\* C1: after every handler run every account's stored balance is >= 0.
BalanceNeverNegative ==
    Quiescent => \A i \in DOMAIN users : users[i].balance >= 0

\* the runs C2 is about: the run before activated the account, awarded the
\* referral bonus to an existing referrer and no start bonus, and this run
\* reversed it
RoundTrip(t) ==
    LET before == tasks[t].pre.last
        d == tasks[t].done
    IN /\ Returning(t)
       /\ before.what = "activated" /\ before.referral
       /\ ~before.start_bonus_awarded
       /\ d.what = "unsubscribed" /\ d.uid = before.uid
       /\ HasUser(tasks[t].pre.users,
                  tasks[t].pre.users[d.uid].referred_by)

\* C2: an activation that awards the referral bonus, followed by the
\* unsubscription of the same account, leaves the referee's and the
\* referrer's balances as they were before the activation and reward_claimed
\* false.
RoundTripRestoresBalances ==
    \A t \in 1..MaxTasks :
       RoundTrip(t)
          => /\ Balances(users) = tasks[t].pre.last.before
             /\ ~users[tasks[t].done.uid].reward_claimed

\* C3: once a withdrawal request is paid or rejected its status never changes.
StatusChangesOnce ==
    [][\A r \in 1..Len(withdrawals) :
          withdrawals[r].status # "pending"
             => withdrawals'[r].status = withdrawals[r].status]_vars

\* C4: the requesting account receives at most one outcome notification per
\* withdrawal request.
AtMostOneOutcomeNotice == \A r \in 1..Len(notices) : notices[r] <= 1

\* C5: _ensure_user_record called again with the same id, referrer and name
\* returns created = false and changes no row of the users table.
EnsureIdempotent ==
    \A t \in 1..MaxTasks :
       (/\ Returning(t)
        /\ tasks[t].done.op = "_ensure_user_record"
        /\ tasks[t].done.again)
          => (~tasks[t].done.created /\ users = tasks[t].pre.users)

\* C5 witness: the call before created the row with a referrer, and the same
\* call was made again.
EnsureTwiceAfterCreate ==
    /\ last.op = "_ensure_user_record" /\ last.again
    /\ last.prior = "created" /\ ~last.created
    /\ last.ref = 2 /\ users[last.uid].referred_by = 2

\* C6: _ensure_user_record(id, referred_by = id) leaves referred_by null, for
\* an account that does not exist yet and for one that has no referrer.
EnsureRejectsSelfReferral ==
    \A t \in 1..MaxTasks :
       LET d == tasks[t].done
           found == tasks[t].pre.users
       IN (/\ Returning(t)
           /\ d.op = "_ensure_user_record"
           /\ d.ref = d.uid
           /\ (HasUser(found, d.uid) => found[d.uid].referred_by = NULL))
             => users[d.uid].referred_by = NULL

\* the sender passes the gates of a feature handler: the account exists, is
\* stored as subscribed and not banned, and the channel reports a member
Admitted(t) ==
    LET u == tasks[t].done.uid
        found == tasks[t].pre.users
    IN /\ HasUser(found, u)
       /\ found[u].is_subscribed /\ ~found[u].is_banned
       /\ tasks[t].done.member

\* the users table after a run of handler t that stores `row` for its
\* sender: ensure_user has brought the cached username up to the sender's
\* current one
Stored(t, row) ==
    [tasks[t].pre.users EXCEPT
        ![tasks[t].done.uid] = [row EXCEPT !.username = tasks[t].done.name]]

\* the bonus is due at the time handler t read the clock: never taken, or
\* taken at least 24 hours before
BonusDue(t) ==
    LET row == tasks[t].pre.users[tasks[t].done.uid]
    IN \/ row.last_daily_bonus = NoStamp
       \/ tasks[t].done.now - fromisoformat(row.last_daily_bonus)
             >= DaySeconds

\* the whole hours and minutes left of the 24 hours
WaitLeft(t) ==
    LET row == tasks[t].pre.users[tasks[t].done.uid]
        left == DaySeconds
                   - (tasks[t].done.now - fromisoformat(row.last_daily_bonus))
    IN <<left \div HourSeconds, (left % HourSeconds) \div MinuteSeconds>>

\* C7 as stated: a refused daily bonus changes no stored field.
DailyRefusalChangesNothing ==
    \A t \in 1..MaxTasks :
       (/\ Returning(t) /\ tasks[t].done.op = "daily_bonus"
        /\ Admitted(t) /\ ~BonusDue(t))
          => users = tasks[t].pre.users

\* C7: for a subscribed, non-banned account daily_bonus credits exactly
\* daily_bonus and stores last_daily_bonus = now if and only if the stamp is
\* unset or at least 24 hours old; otherwise it replies with the whole hours
\* and minutes left and changes no stored field other than the cached
\* username.
DailyBonusWindow ==
    \A t \in 1..MaxTasks :
       (Returning(t) /\ tasks[t].done.op = "daily_bonus" /\ Admitted(t)) =>
          LET d == tasks[t].done
              row == tasks[t].pre.users[d.uid]
          IN IF BonusDue(t)
             THEN /\ d.reply = "daily_bonus"
                  /\ users = Stored(t,
                         [row EXCEPT
                             !.balance = @ + daily_bonus_amount,
                             !.last_daily_bonus = isoformat(d.now)])
             ELSE /\ d.reply = "wait"
                  /\ d.wait = WaitLeft(t)
                  /\ users = Stored(t, row)

\* C7 witness: a bonus taken at t0 was refused at t0 + 23 h 59 min with
\* "0 h 1 min" left.
DailyRefusedAMinuteEarly ==
    /\ last.op = "daily_bonus" /\ last.reply = "wait"
    /\ last.wait = <<0, 1>>
    /\ last.now - fromisoformat(users[last.uid].last_daily_bonus)
          = DaySeconds - MinuteSeconds

\* C8 as stated: a refused withdrawal amount changes nothing.
RefusedAmountChangesNothing ==
    \A t \in 1..MaxTasks :
       (/\ Returning(t) /\ tasks[t].done.op = "process_withdraw_amount"
        /\ Admitted(t)
        /\ tasks[t].done.reply \in {"below_minimum", "insufficient"})
          => users = tasks[t].pre.users

\* C8: for an integer amount a sent by a subscribed, non-banned account in
\* the amount state: a < min_withdrawal or a > balance is refused, the
\* balance and the requests stay as they were and the sender stays in the
\* amount state (no stored field changes other than the cached username);
\* otherwise the balance drops by exactly a, one pending request of amount a
\* is appended and the state is cleared.
WithdrawAmountHandling ==
    \A t \in 1..MaxTasks :
       (/\ Returning(t) /\ tasks[t].done.op = "process_withdraw_amount"
        /\ Admitted(t)
        /\ tasks[t].done.reply # "not_integer") =>
          LET d == tasks[t].done
              found == tasks[t].pre
              u == d.uid
              a == d.amount
          IN IF a < min_withdrawal \/ a > found.users[u].balance
             THEN /\ d.reply = IF a < min_withdrawal THEN "below_minimum"
                               ELSE "insufficient"
                  /\ users = Stored(t, found.users[u])
                  /\ withdrawals = found.withdrawals
                  /\ session = found.session
                  /\ found.session[u] = "waiting_for_amount"
             ELSE /\ d.reply = "created"
                  /\ users = Stored(t,
                         [found.users[u] EXCEPT !.balance = @ - a])
                  /\ withdrawals = Append(found.withdrawals,
                         [telegram_id |-> u, amount |-> a,
                          status |-> "pending", created_at |-> clock])
                  /\ session = [found.session EXCEPT ![u] = "none"]

\* C8 witness: with balance 20 and minimum 15 the amount 20 was accepted and
\* left balance 0, a pending request of 20 and a cleared state.
WithdrewWholeBalance ==
    /\ last.op = "process_withdraw_amount" /\ last.reply = "created"
    /\ last.amount = SeedBalance /\ last.before[last.uid] = SeedBalance
    /\ users[last.uid].balance = 0
    /\ Len(withdrawals) > 0
    /\ withdrawals[Len(withdrawals)].amount = SeedBalance
    /\ withdrawals[Len(withdrawals)].status = "pending"
    /\ session[last.uid] = "none"

\* C9: a block or unblock by an administrator that reads the flag already
\* at the value asked for writes nothing and notifies nobody; one that reads
\* no row reports "not found", writes nothing and notifies nobody; one that
\* reads the other value writes the flag once and notifies the account
\* once.  No such call creates a row or touches a field other than
\* is_banned, whatever the other block and unblock calls in flight do.
BanIdempotent ==
    \A t \in 1..MaxTasks :
       (/\ Returning(t)
        /\ tasks[t].done.op \in {"block_user_callback",
                                 "unblock_user_callback"}
        /\ tasks[t].done.uid \in admin_ids) =>
          LET d == tasks[t].done
              found == tasks[t].pre.users
              banned == d.op = "block_user_callback"
          IN /\ IF ~HasUser(found, d.target)
                THEN /\ d.reply = "not_found"
                     /\ d.writes = 0 /\ d.sent = 0
                ELSE IF found[d.target].is_banned = banned
                THEN d.writes = 0 /\ d.sent = 0
                ELSE d.writes = 1 /\ d.sent = 1
             /\ \A u \in Ids \cup UnknownIds :
                   /\ HasUser(users, u) <=> HasUser(found, u)
                   /\ HasUser(found, u) =>
                         [users[u] EXCEPT !.is_banned = FALSE]
                            = [found[u] EXCEPT !.is_banned = FALSE]

\* C9 witness: an administrator banned an account that was banned already,
\* and nothing was written or sent.
BannedTwice ==
    /\ last.op = "block_user_callback" /\ last.uid \in admin_ids
    /\ last.reply = "blocked" /\ last.writes = 0 /\ last.sent = 0
    /\ HasUser(users, last.target) /\ users[last.target].is_banned

\* a handler run that reconciled the subscription
Reconciled(call) == call.what \in {"activated", "unsubscribed", "noop"}

\* C10: a second reconciliation of the same account with the same channel
\* answer, with no other step between, does nothing: it neither activates
\* nor reverses, awards no bonus, and leaves every balance and flag as it
\* was.
ReconcileIdempotent ==
    \A t \in 1..MaxTasks :
       LET d == tasks[t].done
           before == tasks[t].pre.last
       IN (/\ Returning(t)
           /\ Reconciled(before) /\ Reconciled(d)
           /\ d.uid = before.uid /\ d.member = before.member)
             => /\ d.what = "noop"
                /\ ~d.start_bonus_awarded /\ ~d.referral
                /\ Ledger(users) = Ledger(tasks[t].pre.users)

\* C10 witness: a run that activated the account and paid the referral bonus
\* was followed by a second run with the same answer, which did nothing.
ReconciledTwice ==
    /\ last.again /\ last.prior = "activated" /\ last.what = "noop"
    /\ last.member
    /\ users[last.uid].reward_claimed /\ users[last.uid].is_subscribed

\* C11: once an account's stored referred_by is set, no step of any
\* interleaving of handlers changes it or sets it back to null.
ReferrerNeverChanges ==
    [][\A u \in DOMAIN users :
          users[u].referred_by # NULL
             => /\ u \in DOMAIN users'
                /\ users'[u].referred_by = users[u].referred_by]_vars

\* C11 witness: two /start handlers of one account carried different deep
\* links; the assign_referrer of the second was applied after the first
\* had set the referrer.
LateReferrerIgnored ==
    /\ last.op = "assign_referrer"
    /\ HasUser(users, last.uid)
    /\ users[last.uid].referred_by \notin {NULL, last.amount}

\* C12: the start bonus credited to an account never adds up to more than
\* start_bonus, whatever the interleaving of its handlers.
StartBonusAtMostOnce == \A u \in Ids : journal.start[u] <= start_bonus

\* C13: when no handler is mid-execution, every referee with reward_claimed
\* set has a referrer, and the referral amount applied to that referrer's
\* stored balance on the referee's behalf is exactly referral_bonus.
RewardClaimedMeansCredited ==
    Quiescent =>
       \A u \in DOMAIN users :
          users[u].reward_claimed
             => /\ users[u].referred_by # NULL
                /\ journal.referral[u] = referral_bonus

\* C14: a withdrawal debit of amount a is applied only when the stored
\* balance is at least a.
DebitWithinStoredBalance ==
    [][(last'.op = "update_balance" /\ last'.what = "withdrawal")
          => users[last'.uid].balance >= 0 - last'.amount]_vars

\* the amounts of the withdrawal rows of an account, summed
RECURSIVE RowsTotal(_, _)
RowsTotal(W, u) ==
    IF Len(W) = 0 THEN 0
    ELSE (IF W[Len(W)].telegram_id = u THEN W[Len(W)].amount ELSE 0)
         + RowsTotal(SubSeq(W, 1, Len(W) - 1), u)

\* C15: after every handler has ended, also when store calls failed, the
\* withdrawal amounts debited from an account are the amounts of its
\* withdrawal rows.
DebitAndRowTogether ==
    Quiescent => \A u \in Ids : journal.debit[u] = RowsTotal(withdrawals, u)

\* the handlers a user reaches from the menu, the inline button and /start
UserHandlers ==
    {"cmd_start", "show_balance", "daily_bonus", "referral_link",
     "top_referrers", "check_subscription", "check_subscription_callback",
     "withdrawal_request", "process_withdraw_amount"}

\* the fields of an account that carry money or reward state
RewardState(U) ==
    [i \in DOMAIN U |->
        <<U[i].balance, U[i].is_subscribed, U[i].reward_claimed,
          U[i].start_bonus_claimed, U[i].last_daily_bonus>>]

\* C16: a user-facing handler run by a banned account answers with the ban
\* notice, leaves balance, is_subscribed, reward_claimed,
\* start_bonus_claimed and last_daily_bonus of every account as they were,
\* and creates no withdrawal request.
BannedAccountRefused ==
    \A t \in 1..MaxTasks :
       LET d == tasks[t].done
           found == tasks[t].pre
       IN (/\ Returning(t)
           /\ d.op \in UserHandlers
           /\ HasUser(found.users, d.uid)
           /\ found.users[d.uid].is_banned)
          => /\ d.reply = "banned"
             /\ RewardState(users) = RewardState(found.users)
             /\ withdrawals = found.withdrawals

\* C16 witness: a banned account with enough balance that was asked for an
\* amount sent one and was refused
BannedAmountRefused ==
    /\ last.op = "process_withdraw_amount"
    /\ last.reply = "banned"
    /\ HasUser(users, last.uid)
    /\ users[last.uid].is_banned
    /\ users[last.uid].balance >= min_withdrawal
    /\ withdrawals = <<>>

\* the commands of the menu other than the withdrawal itself
OtherCommands ==
    {"cmd_start", "show_balance", "daily_bonus", "referral_link",
     "top_referrers", "check_subscription", "support_entry"}

\* C17: when an account whose amount is awaited runs another command, or
\* one of its handlers detects a ban or a lost subscription, the session
\* is no longer waiting_for_amount afterwards.
AwaitedAmountAbandoned ==
    \A t \in 1..MaxTasks :
       LET d == tasks[t].done
       IN (/\ Returning(t)
           /\ tasks[t].pre.session[d.uid] = "waiting_for_amount"
           /\ \/ d.op \in OtherCommands
              \/ /\ d.op \in UserHandlers
                 /\ d.reply \in {"banned", "subscribe_required"})
          => session[d.uid] # "waiting_for_amount"

\* C18: a withdrawal submission that is accepted sends, in the same
\* handler, a notification to the administrators.
SubmissionNotifiesAdmins ==
    \A t \in 1..MaxTasks :
       (/\ Returning(t)
        /\ tasks[t].done.op = "process_withdraw_amount"
        /\ tasks[t].done.reply = "created")
       => tasks[t].done.to_admins > 0

\* C19: marking a request paid or rejected leaves every account as it
\* was: the balance debited at submission is not returned on rejection.
ResolutionLeavesAccounts ==
    \A t \in 1..MaxTasks :
       (/\ Returning(t)
        /\ tasks[t].done.op \in {"withdraw_paid", "withdraw_rejected"})
       => users = tasks[t].pre.users

\* C19 witness: a request was rejected and its account still carries the
\* debit
RejectedWithoutRefund ==
    /\ last.op = "withdraw_rejected"
    /\ last.reply = "updated"
    /\ withdrawals[last.target].status = "rejected"
    /\ users[withdrawals[last.target].telegram_id].balance
          = SeedBalance - withdrawals[last.target].amount

\* the callbacks and commands meant for the administrators
ModeratorOps ==
    {"block_user_callback", "unblock_user_callback", "withdraw_paid",
     "withdraw_rejected", "admin_stats", "admin_withdrawals",
     "admin_broadcast", "admin_broadcast_send", "support_reply_start",
     "support_reply_send", "admin_regen_pin"}

\* C20: a moderator action invoked by an account that is not an
\* administrator is answered with the denial and nothing else, and
\* changes nothing.
NonAdminRefused ==
    \A t \in 1..MaxTasks :
       LET d == tasks[t].done
           found == tasks[t].pre
       IN (Returning(t) /\ d.op \in ModeratorOps /\ d.uid \notin admin_ids)
          => /\ d.reply = "denied"
             /\ users = found.users
             /\ withdrawals = found.withdrawals
             /\ session = found.session
             /\ notices = found.notices

\* C21: no handler is left by the error of a notification it sends: the
\* activation, unsubscription, ban and resolution handlers reach their end
\* and their reply whatever the delivery outcome.
NotificationFailureContained ==
    \A t \in 1..MaxTasks :
       (/\ Returning(t)
        /\ tasks[t].done.op \in UserHandlers \cup ModeratorOps
        /\ tasks[t].done.sent > 0)
       => ~tasks[t].done.raised

\* C22: a broadcast that is not cancelled attempts one delivery per stored
\* account, reports the number of accounts less the failed deliveries,
\* does not abort, and leaves the administrator's session cleared.
BroadcastReachesEveryAccount ==
    \A t \in 1..MaxTasks :
       LET d == tasks[t].done
           found == tasks[t].pre.users
           k == Cardinality({i \in DOMAIN found : tasks[t].plan[i] # "ok"})
       IN (/\ Returning(t)
           /\ d.op = "admin_broadcast_send"
           /\ d.uid \in admin_ids
           /\ d.reply # "cancelled")
          => /\ ~d.raised
             /\ d.reply = "broadcast_sent"
             /\ d.attempted = count_users(found)
             /\ d.sent = count_users(found) - k
             /\ session[d.uid] = "none"

\* C23: at most one store operation is inside the locked section of
\* _locked_connection, from its connect to its close, at any time.
StoreMutualExclusion ==
    Cardinality({t \in 1..MaxTasks : lock.at[t] \in Inside}) <= 1

\* C23 witness: one handler is running its statement while another one,
\* itself in the middle of its store calls, waits for the lock
WaitingBehindStatement ==
    \E t, w \in 1..MaxTasks :
       /\ lock.at[t] = "execute"
       /\ lock.at[w] = "waiting"
       /\ tasks[t].pc = "run"
       /\ tasks[w].pc = "run"

\* handler t has begun and not yet ended
Started(t) == tasks[t].pc # "idle" \/ lock.at[t] # "out"

\* C30: under weak fairness of every handler's steps, a handler that
\* waits for the store lock acquires it, and a handler that has started
\* finishes.
NoHandlerBlocks ==
    \A t \in 1..MaxTasks :
       /\ (lock.at[t] = "waiting") ~> (lock.at[t] \in Inside)
       /\ Started(t) ~> ~Started(t)

\* C30 witness: a handler between two of its store calls waits while the
\* lock is held by another handler
HandlerWaitsForLock ==
    \E t, w \in 1..MaxTasks :
       /\ t # w
       /\ lock.locked
       /\ lock.at[t] = "close"
       /\ lock.waiters = <<w>>
       /\ tasks[w].pc \in {"reread", "run"}

\* C24: any two credits of the daily bonus to one account are at least 24
\* hours apart, however the daily_bonus handlers of the account interleave.
DailyCreditsADayApart ==
    \A u \in Ids :
       \A i, k \in 1..Len(journal.daily[u]) :
          i < k => journal.daily[u][k] - journal.daily[u][i] >= DaySeconds

\* every column of an account but the username
Numeric(U) ==
    [i \in DOMAIN U |->
        <<U[i].balance, U[i].referred_by, U[i].is_subscribed,
          U[i].reward_claimed, U[i].start_bonus_claimed, U[i].is_banned,
          U[i].last_daily_bonus>>]

\* the insert of a call that found no row: the first creates the row with
\* balance 0 and its own referrer, a later one changes nothing
InsertOnce ==
    \A t \in 1..MaxTasks :
       (tasks[t].pc = "create" /\ tasks'[t].pc = "reread")
       => IF HasUser(users, tasks[t].uid)
          THEN users' = users
          ELSE /\ DOMAIN users' = DOMAIN users \cup {tasks[t].uid}
               /\ users'[tasks[t].uid].balance = 0
               /\ users'[tasks[t].uid].referred_by = tasks[t].ref

\* C25 as stated: of two _ensure_user_record calls racing for an id that
\* has no row, one creates the row with balance 0 and its own referrer,
\* and from then on no step of either call changes a numeric field of a
\* row, referred_by included.
FirstInsertDecidesRow ==
    [][/\ InsertOnce
       /\ \A u \in DOMAIN users :
             u \in DOMAIN users' /\ Numeric(users')[u] = Numeric(users)[u]]_vars

\* C25: of two _ensure_user_record calls racing for an id that has no row,
\* one creates the row with balance 0 and its own referrer and a later
\* insert is ignored.  No step changes a numeric field of an existing row,
\* but for one case: a call that found the row with no referrer and
\* carries a referrer other than the id itself sets referred_by, once.
OneRowPerIdentity ==
    [][/\ InsertOnce
       /\ \A u \in DOMAIN users :
             /\ u \in DOMAIN users'
             /\ Numeric([users' EXCEPT ![u].referred_by = NULL])[u]
                   = Numeric([users EXCEPT ![u].referred_by = NULL])[u]
             /\ users'[u].referred_by # users[u].referred_by
                   => /\ users[u].referred_by = NULL
                      /\ Truthy(users'[u].referred_by)
                      /\ users'[u].referred_by # u
                      /\ \E t \in 1..MaxTasks :
                            /\ tasks[t].pc = "run"
                            /\ tasks'[t] # tasks[t]
                            /\ tasks[t].uid = u
                            /\ Head(tasks[t].queue).f = "assign_referrer"
                            /\ Head(tasks[t].queue).n
                                  = users'[u].referred_by]_vars

\* C25 witness: a call whose insert has run with no referrer sees the row
\* take the referrer of the other call, which found the row and assigned
\* it
ReferrerAssignedAfterInsert ==
    \E t \in 1..MaxTasks :
       /\ tasks[t].op = "_ensure_user_record"
       /\ tasks[t].pc = "reread"
       /\ tasks[t].ref = NULL
       /\ last.op = "assign_referrer"
       /\ last.uid = tasks[t].uid
       /\ users[tasks[t].uid].referred_by = last.amount
       /\ users[tasks[t].uid].balance = 0

\* the handlers of the referral slice that run the subscription check
VerifyOps == {"cmd_start", "check_subscription"}

\* C26: after the subscription check of an account that is not banned, the
\* stored is_subscribed is the channel's answer of that run; on "not
\* member" for an account stored as subscribed with reward_claimed and a
\* referrer, referral_bonus is taken from the account and from the
\* referrer and reward_claimed is cleared; on "not member" for an account
\* not stored as subscribed, no balance and no flag is written.
SubscriptionMirrorsOracle ==
    \A t \in 1..MaxTasks :
       (Returning(t) /\ tasks[t].done.op \in VerifyOps)
       => LET d == tasks[t].done
              found == tasks[t].pre.users
              u == d.uid
              was == HasUser(found, u) /\ found[u].is_subscribed
          IN /\ users[u].is_subscribed = d.member
             /\ (/\ ~d.member /\ was
                 /\ found[u].reward_claimed
                 /\ found[u].referred_by # NULL)
                => /\ users[u].balance = found[u].balance - referral_bonus
                   /\ ~users[u].reward_claimed
                   /\ \A r \in DOMAIN found :
                         (r = found[u].referred_by /\ r # u)
                         => users[r].balance
                               = found[r].balance - referral_bonus
             /\ (~d.member /\ ~was)
                => /\ \A i \in DOMAIN found :
                         RewardState(users)[i] = RewardState(found)[i]
                   /\ \A i \in DOMAIN users \ DOMAIN found :
                         RewardState(users)[i]
                            = <<0, FALSE, FALSE, FALSE, NoStamp>>

\* C26 witness: an account that had brought its referrer the bonus left
\* the channel; the reversal took the bonus back from both balances
ReferralReversed ==
    /\ last.op \in VerifyOps
    /\ last.what = "unsubscribed"
    /\ ~last.member
    /\ last.referral
    /\ ~users[last.uid].is_subscribed
    /\ ~users[last.uid].reward_claimed
    /\ HasUser(users, users[last.uid].referred_by)
    /\ last.before[users[last.uid].referred_by]
          = users[users[last.uid].referred_by].balance + referral_bonus

\* C27: a withdrawal request that passes the ban and subscription gates
\* with the session idle opens the amount dialogue exactly when the stored
\* balance, with the credit of the subscription check of the same run, is
\* at least min_withdrawal; otherwise it reports the shortfall and the
\* session stays idle.
RequestDecidesOnStoredBalance ==
    \A t \in 1..MaxTasks :
       LET d == tasks[t].done
       IN (/\ Returning(t)
           /\ d.op = "withdrawal_request"
           /\ d.reply \in {"shortfall", "enter_amount"}
           /\ tasks[t].pre.session[d.uid] = "none")
          => IF users[d.uid].balance >= min_withdrawal
             THEN /\ session[d.uid] = "waiting_for_amount"
                  /\ d.reply = "enter_amount"
             ELSE /\ session[d.uid] = "none"
                  /\ d.reply = "shortfall"

\* C28: whatever deep links the /start commands carry, the sender's own id
\* included, no account is stored with itself as referrer.
NoSelfReferral ==
    \A u \in DOMAIN users : users[u].referred_by # u

\* C28 witness: /start with the sender's own id as deep link created the
\* account, without a referrer
OwnLinkDropped ==
    /\ last.op = "cmd_start"
    /\ last.target = last.uid
    /\ last.created
    /\ users[last.uid].referred_by = NULL

\* C29: when no handler is mid-execution, every account that is not
\* banned, is stored as subscribed and has a referrer has reward_claimed
\* set, also when the referrer was assigned by a /start that came after
\* the subscription.
SubscribedRefereeRewarded ==
    Quiescent
    => \A u \in DOMAIN users :
          (/\ ~users[u].is_banned
           /\ users[u].is_subscribed
           /\ users[u].referred_by # NULL)
          => users[u].reward_claimed

\* C31: when no handler is mid-execution, an account with reward_claimed
\* set is stored as subscribed, however the subscription checks of the
\* account interleave and whatever the channel answers.
RewardClaimedMeansSubscribed ==
    Quiescent
    => \A u \in DOMAIN users :
          users[u].reward_claimed => users[u].is_subscribed

\* C32: the stored balance of an account that is banned before and after a
\* step is the same before and after it, whatever the other accounts do
\* (a referee of it subscribing or unsubscribing included).
BannedBalanceFrozen ==
    [][\A u \in DOMAIN users :
          (users[u].is_banned /\ u \in DOMAIN users' /\ users'[u].is_banned)
          => users'[u].balance = users[u].balance]_vars

\* C33: the amount show_balance reports is the stored balance of the account
\* when the handler replies, the activation of the subscription inside the
\* same handler included.
ReportedBalanceIsStored ==
    \A t \in 1..MaxTasks :
       (/\ Returning(t)
        /\ tasks[t].done.op = "show_balance"
        /\ tasks[t].done.reply = "balance")
       => tasks[t].done.amount = users[tasks[t].done.uid].balance

\* C34: every referrer recorded in the store is an account of the store.
ReferrersExist ==
    \A u \in DOMAIN users :
       users[u].referred_by # NULL => users[u].referred_by \in DOMAIN users

============================================================================
